---- MODULE Spec2Model ----
(***************************************************************************)
(* Model of the navigation core of src/self_drive.py (class                *)
(* LidarMapViewer): the decaying occupancy grid, the A* path planner run   *)
(* in its own thread, and the navigation state machine driven by the Tk    *)
(* event loop (periodic tick, action timer, planner callbacks, operator    *)
(* events).                                                                *)
(*                                                                         *)
(* Numbers.  The grid is a float32 array; cell values are kept here as     *)
(* integers in units of 1/VAL_SCALE, and the decay factor 0.90 as          *)
(* DECAY_RATE_PCT / 100, rounding down.  Headings are whole degrees.       *)
(* Bearings of the readings are multiples of 90 degrees, for which sine    *)
(* and cosine are exact.  The map is scaled down to MapCells cells a side. *)
(***************************************************************************)
EXTENDS Integers, Sequences, FiniteSets, TLC

\* Side of the map in cells (80 in the program: 4 m of 50 mm cells).
MapCells == 4

\* ------------------------------------------------------------ configuration
CELL_SIZE_MM == 50
MAP_SIZE_MM == MapCells * CELL_SIZE_MM
GRID_DIMENSION == MAP_SIZE_MM \div CELL_SIZE_MM
MAX_LIDAR_RANGE_MM_DISPLAY == MAP_SIZE_MM
LIDAR_MOUNTING_OFFSET_DEG == 0

VAL_SCALE == 1000
HIT_INCREMENT == 25
DECAY_RATE_PCT == 90
MAX_CELL_VALUE == 150
RENDER_THRESHOLD == 40
CLEAR_BELOW_VALUE == 10

QUEUE_MAXSIZE == 5
PACKETS_PER_CYCLE == 2
ANGLE_TOLERANCE == 1

NAV_STATE_IDLE == "IDLE"
NAV_STATE_PLANNING == "PLANNING"
NAV_STATE_AWAITING_NEXT_STEP == "AWAITING_NEXT_STEP"
NAV_STATE_TURNING_LEFT == "TURNING_LEFT"
NAV_STATE_TURNING_RIGHT == "TURNING_RIGHT"
NAV_STATE_MOVING_FORWARD == "MOVING_FORWARD"
NAV_STATE_REACHED_GOAL == "REACHED_GOAL"
NAV_STATE_PATH_BLOCKED == "PATH_BLOCKED"
NAV_STATE_NO_PATH_FOUND == "NO_PATH_FOUND"
NAV_STATE_ROBOT_CMD_ERROR == "ROBOT_CMD_ERROR"

NavStates ==
    { NAV_STATE_IDLE, NAV_STATE_PLANNING, NAV_STATE_AWAITING_NEXT_STEP,
      NAV_STATE_TURNING_LEFT, NAV_STATE_TURNING_RIGHT, NAV_STATE_MOVING_FORWARD,
      NAV_STATE_REACHED_GOAL, NAV_STATE_PATH_BLOCKED, NAV_STATE_NO_PATH_FOUND,
      NAV_STATE_ROBOT_CMD_ERROR }

\* ------------------------------------------------------------ model bounds
\* Most occupied cells of a grid the planner is tried on.
MaxObstacles == 2
\* Most planner callbacks posted to the event loop and not yet run.
MaxAfterQueue == 2
\* Most sensor batches received per connection.
MaxPackets == 1
\* Cap of the counter of forward commands.
MaxFCount == 3
\* Most sensor batches received where only the grid is exercised.
MaxGridPackets == 3

\* ------------------------------------------------------------ state
VARIABLES
    occupancy_grid,             \* [Cells -> value * VAL_SCALE]
    data_queue,                 \* queue.Queue(maxsize=5) of batches
    received_packets,           \* batches drained since the last connection
    is_udp_running,             \* sensor feed connected
    navigation_goal_cell,       \* a cell, or None
    current_path,               \* sequence of cells
    navigation_state,           \* one of NavStates
    robot_orientation_map_deg,  \* 0 = up, 90 = right, 180 = down, 270 = left
    current_action_info,        \* "elapsed" iff time.time() >= end_time
    action_timer_id,            \* the armed tk.after timer, or "none"
    last_command_sent_successful,
    path_planner_thread,        \* [pc, goal, blocked, st, grids] of the planner thread
    after_queue,                \* callbacks posted with root.after(0, ...)
    last_tx,                    \* the command the last handler tried to send
    motion_open,                \* F/L/R was transmitted and no S tried since
    f_count,                    \* F commands transmitted since the goal was set
    halted,                     \* F/L/R failed to send and the operator has
                                \* neither selected a goal nor toggled since
    popped_cells,               \* cells popped off the path after an F since
                                \* the goal was set
    udp_thread,                 \* [pc, raw_data, lost, utf8] of the receiver thread
    \* The sensor process (src/main_server.py, class RPLidarCarControl).
    car_locked,                 \* forward is locked because of an obstacle
    is_scanning,                \* the scan loops run while this is set
    is_reconnecting_lidar,      \* a reconnection is in progress
    scan_thread,                \* position of LidarScanThread, or "none"
    demo_thread,                \* position of DemoScanThread, or "none"
    lidar_reconnect_thread,     \* [pc, attempt, max_retries] of LidarReconnectThread
    main_thread,                \* position of the Tk thread of the sensor process
    server_tx,                  \* [cmd, by]: the command sent last to the motor server
    forward_locked              \* K was transmitted and no U since

\* The variables of the map viewer and those of the sensor process.
viewer_vars ==
    << occupancy_grid, data_queue, received_packets, is_udp_running,
       navigation_goal_cell, current_path, navigation_state,
       robot_orientation_map_deg, current_action_info, action_timer_id,
       last_command_sent_successful, path_planner_thread, after_queue,
       last_tx, motion_open, f_count, halted, popped_cells, udp_thread >>

server_vars ==
    << car_locked, is_scanning, is_reconnecting_lidar, scan_thread, demo_thread,
       lidar_reconnect_thread, main_thread, server_tx, forward_locked >>

vars == << viewer_vars, server_vars >>

\* ------------------------------------------------------------ shared types
\* The sensor process as RPLidarCarControl.__init__ builds it, before it
\* looks for the lidar (main_server.py lines 62-78).
NoServerTx == [cmd |-> "none", by |-> "none"]
NoWorker == [pc |-> "none", attempt |-> 0, max_retries |-> 0]

ServerInit ==
    /\ car_locked = FALSE
    /\ is_scanning = FALSE
    /\ is_reconnecting_lidar = FALSE
    /\ scan_thread = "none"
    /\ demo_thread = "none"
    /\ lidar_reconnect_thread = NoWorker
    /\ main_thread = "initialize"
    /\ server_tx = NoServerTx
    /\ forward_locked = FALSE

None == <<>>
Cells == (0 .. GRID_DIMENSION - 1) \X (0 .. GRID_DIMENSION - 1)
grid_center_y_cell == GRID_DIMENSION \div 2
grid_center_x_cell == GRID_DIMENSION \div 2
current_logical_robot_cell_on_path == << grid_center_y_cell, grid_center_x_cell >>

Abs(x) == IF x < 0 THEN -x ELSE x
Min(a, b) == IF a < b THEN a ELSE b
\* Python's int(): the quotient n / d (d > 0) truncated toward zero.
TruncDiv(n, d) == IF n >= 0 THEN n \div d ELSE -((-n) \div d)
RECURSIVE Reverse(_)
Reverse(s) == IF s = <<>> THEN <<>> ELSE Append(Reverse(Tail(s)), Head(s))

EmptyGrid == [c \in Cells |-> 0]
Range(seq) == { seq[i] : i \in DOMAIN seq }

\* ------------------------------------------------------------ occupancy grid
IsOccupiedValue(v) == v >= RENDER_THRESHOLD * VAL_SCALE

InBounds(cell) ==
    /\ 0 <= cell[1] /\ cell[1] < GRID_DIMENSION
    /\ 0 <= cell[2] /\ cell[2] < GRID_DIMENSION

\* A variant that takes every in-bounds cell for clear.
is_valid_and_clear_IgnoringOccupancy(grid, cell) == InBounds(cell)

is_valid_and_clear(grid, cell) ==
    InBounds(cell) /\ grid[cell] < RENDER_THRESHOLD * VAL_SCALE

\* A variant that decays by 5 percent a step.
DecayValue_Slower(v) ==
    LET d == (v * 95) \div 100
    IN  IF d < CLEAR_BELOW_VALUE * VAL_SCALE THEN 0 ELSE d

\* A variant that never snaps a small value to 0.
DecayValue_NoSnap(v) == (v * DECAY_RATE_PCT) \div 100

DecayValue(v) ==
    LET d == (v * DECAY_RATE_PCT) \div 100
    IN  IF d < CLEAR_BELOW_VALUE * VAL_SCALE THEN 0 ELSE d

DecayGrid(grid) == [c \in Cells |-> DecayValue(grid[c])]

Sin90(a) == CASE a = 0 -> 0 [] a = 90 -> 1 [] a = 180 -> 0 [] a = 270 -> -1
Cos90(a) == CASE a = 0 -> 1 [] a = 90 -> 0 [] a = 180 -> -1 [] a = 270 -> 0

\* (x_mm, y_mm) of a reading, +x right and +y up in the map frame.
polar_to_cartesian_map_frame(angle_deg_raw, distance_mm, heading) ==
    LET rel == (angle_deg_raw + LIDAR_MOUNTING_OFFSET_DEG) % 360
        map == (rel + heading) % 360
    IN  << distance_mm * Sin90(map), distance_mm * Cos90(map) >>

\* int(center + mm / CELL_SIZE_MM + 0.5), the sign of mm given by the caller.
GridIndex(center, mm) ==
    TruncDiv(2 * CELL_SIZE_MM * center + 2 * mm + CELL_SIZE_MM, 2 * CELL_SIZE_MM)

HitCell(point, heading) ==
    LET xy == polar_to_cartesian_map_frame(point[1], point[2], heading)
    IN  << GridIndex(grid_center_y_cell, -xy[2]), GridIndex(grid_center_x_cell, xy[1]) >>

\* A reading is the tuple of the fields that split(',') gives.  A field whose
\* text float() rejects with ValueError is written NotANumber; every other
\* field is the number its text denotes.
NotANumber == -999999

\* Lines 380-382: two parts, both of them numbers.
WellFormed(point) ==
    Len(point) = 2 /\ point[1] # NotANumber /\ point[2] # NotANumber

\* A variant that adds the hit without the cap.
IntegratePoint_Uncapped(grid, point, heading) ==
    IF ~WellFormed(point) THEN grid
    ELSE IF ~(0 < point[2] /\ point[2] <= MAX_LIDAR_RANGE_MM_DISPLAY)
    THEN grid
    ELSE LET cell == HitCell(point, heading)
         IN  IF InBounds(cell)
             THEN [grid EXCEPT ![cell] = @ + HIT_INCREMENT * VAL_SCALE]
             ELSE grid

\* The body of the loop over the readings of a batch: a malformed reading
\* (continue, or ValueError caught inside the loop) changes nothing.
IntegratePoint(grid, point, heading) ==
    IF ~WellFormed(point) THEN grid
    ELSE IF ~(0 < point[2] /\ point[2] <= MAX_LIDAR_RANGE_MM_DISPLAY)
    THEN grid
    ELSE LET cell == HitCell(point, heading)
         IN  IF InBounds(cell)
             THEN [grid EXCEPT ![cell] =
                      Min(@ + HIT_INCREMENT * VAL_SCALE, MAX_CELL_VALUE * VAL_SCALE)]
             ELSE grid

RECURSIVE IntegratePoints(_, _, _)
\* A variant in which a malformed reading ends the batch.
RECURSIVE IntegratePoints_StoppingAtMalformed(_, _, _)
IntegratePoints_StoppingAtMalformed(grid, points, heading) ==
    IF points = <<>> \/ ~WellFormed(Head(points)) THEN grid
    ELSE IntegratePoints_StoppingAtMalformed(IntegratePoint(grid, Head(points), heading),
                                             Tail(points), heading)

IntegratePoints(grid, points, heading) ==
    IF points = <<>> THEN grid
    ELSE IntegratePoints(IntegratePoint(grid, Head(points), heading), Tail(points), heading)

\* A variant that decays after the hits of the batch instead of before.
update_occupancy_grid_DecayLast(grid, points, heading) ==
    DecayGrid(IntegratePoints(grid, points, heading))

\* One decay, then the hits of the batch one after the other.
update_occupancy_grid(grid, points, heading) ==
    IntegratePoints(DecayGrid(grid), points, heading)

\* ------------------------------------------------------------ path planner
heuristic(cell, goal) == Abs(cell[1] - goal[1]) + Abs(cell[2] - goal[2])

\* float('inf') of g_score: above every path length.
G_INF == GRID_DIMENSION * GRID_DIMENSION + 1

\* Explore neighbors in the order (0, 1), (0, -1), (1, 0), (-1, 0).
NeighborOffsets == << <<0, 1>>, <<0, -1>>, <<1, 0>>, <<-1, 0>> >>

\* iterations < GRID_DIMENSION * GRID_DIMENSION * 1.5
BelowMaxIterations(iterations) ==
    2 * iterations < 3 * GRID_DIMENSION * GRID_DIMENSION

\* heapq orders the entries (f_score, count, cell); count is unique.
HeapLess(a, b) == a[1] < b[1] \/ (a[1] = b[1] /\ a[2] < b[2])
\* A variant that pops the entry pushed last, whatever its priority.
HeapPop_LastPushed(open_set) ==
    CHOOSE e \in open_set : \A o \in open_set : o[2] <= e[2]

\* A variant that pops, among the entries of least f_score, the one pushed last.
HeapPop_NewestAmongTies(open_set) ==
    CHOOSE e \in open_set :
        \A o \in open_set \ {e} : e[1] < o[1] \/ (e[1] = o[1] /\ e[2] > o[2])

HeapPop(open_set) == CHOOSE e \in open_set : \A o \in open_set \ {e} : HeapLess(e, o)

\* The body of the loop over one neighbor of current_cell.
RelaxNeighbor(st, grid, goal, current_cell, off) ==
    LET neighbor == << current_cell[1] + off[1], current_cell[2] + off[2] >>
        tentative_g_score == st.g_score[current_cell] + 1
    IN  IF ~is_valid_and_clear(grid, neighbor) THEN st
        ELSE IF ~(tentative_g_score < st.g_score[neighbor]) THEN st
        ELSE LET st1 == [st EXCEPT !.came_from[neighbor] = current_cell,
                                   !.g_score[neighbor] = tentative_g_score]
             IN  IF neighbor \in st.open_set_hash THEN st1
                 ELSE [st1 EXCEPT
                         !.count = st.count + 1,
                         !.open_set = @ \cup { << tentative_g_score + heuristic(neighbor, goal),
                                                  st.count + 1, neighbor >> },
                         !.open_set_hash = @ \cup {neighbor}]

RECURSIVE RelaxNeighbors(_, _, _, _, _)
RelaxNeighbors(st, grid, goal, current_cell, i) ==
    IF i > Len(NeighborOffsets) THEN st
    ELSE RelaxNeighbors(RelaxNeighbor(st, grid, goal, current_cell, NeighborOffsets[i]),
                        grid, goal, current_cell, i + 1)

\* while open_set and iterations < max_iterations, left by the break.
AStarDone(st) ==
    st.path_found \/ st.open_set = {} \/ ~BelowMaxIterations(st.iterations)

\* A variant whose iterations are not counted.
AStarStep_Uncounted(st, grid, goal) ==
    LET e == HeapPop(st.open_set)
        current_cell == e[3]
        st1 == [st EXCEPT !.open_set = @ \ {e},
                          !.open_set_hash = @ \ {current_cell}]
    IN  IF current_cell = goal
        THEN [st1 EXCEPT !.path_found = TRUE]
        ELSE RelaxNeighbors(st1, grid, goal, current_cell, 1)

\* One iteration of the loop, reading the grid it is given.
AStarStep(st, grid, goal) ==
    LET e == HeapPop(st.open_set)
        current_cell == e[3]
        st1 == [st EXCEPT !.iterations = @ + 1,
                          !.open_set = @ \ {e},
                          !.open_set_hash = @ \ {current_cell}]
    IN  IF current_cell = goal
        THEN [st1 EXCEPT !.path_found = TRUE]
        ELSE RelaxNeighbors(st1, grid, goal, current_cell, 1)

RECURSIVE AStarLoop(_, _, _)
AStarLoop(st, grid, goal) ==
    IF AStarDone(st) THEN st
    ELSE AStarLoop(AStarStep(st, grid, goal), grid, goal)

AStarInit(start_cell, goal) ==
    [ open_set      |-> { << heuristic(start_cell, goal), 0, start_cell >> },
      open_set_hash |-> {start_cell},
      count         |-> 0,
      came_from     |-> [c \in Cells |-> None],
      g_score       |-> [c \in Cells |-> IF c = start_cell THEN 0 ELSE G_INF],
      iterations    |-> 0,
      path_found    |-> FALSE ]

\* while temp in came_from: path.append(temp); temp = came_from[temp]
RECURSIVE WalkBack(_, _, _)
WalkBack(came_from, temp, path) ==
    IF came_from[temp] = None THEN path
    ELSE WalkBack(came_from, came_from[temp], Append(path, temp))

ReconstructPath(came_from, start_cell, goal) ==
    LET path == Reverse(WalkBack(came_from, goal, <<>>))
    IN  IF path # <<>> /\ Head(path) = start_cell THEN Tail(path) ELSE path

\* Lines 538-554: the callback the finished search posts.
AStarResult(st, goal) ==
    IF st.path_found
    THEN [fn |-> "succeeded",
          path |-> ReconstructPath(st.came_from, current_logical_robot_cell_on_path, goal),
          iterations |-> st.iterations]
    ELSE [fn |-> "failed", path |-> <<>>, iterations |-> st.iterations]

\* The search of _plan_path_threaded on one grid: the callback it posts.
AStarSearch(grid, goal) ==
    AStarResult(AStarLoop(AStarInit(current_logical_robot_cell_on_path, goal), grid, goal),
                goal)

\* ------------------------------------------------------------ the object
\* The fields a handler reads and writes, gathered in one record so that a
\* handler is a function from the object before to the object after.  ret is
\* the value send_command returned.
NoTx == [cmd |-> "none", ok |-> FALSE]

Self ==
    [ occupancy_grid |-> occupancy_grid,
      data_queue |-> data_queue,
      received_packets |-> received_packets,
      is_udp_running |-> is_udp_running,
      navigation_goal_cell |-> navigation_goal_cell,
      current_path |-> current_path,
      navigation_state |-> navigation_state,
      robot_orientation_map_deg |-> robot_orientation_map_deg,
      current_action_info |-> current_action_info,
      action_timer_id |-> action_timer_id,
      last_command_sent_successful |-> last_command_sent_successful,
      path_planner_thread |-> path_planner_thread,
      last_tx |-> NoTx,
      motion_open |-> motion_open,
      f_count |-> f_count,
      halted |-> halted,
      popped_cells |-> popped_cells,
      ret |-> FALSE ]

\* A handler of the Tk thread ran while a search was between two iterations:
\* the grid it left is one more grid state of that search.
Observed(t, grid) ==
    IF t.pc = "search" /\ t.st # None THEN [t EXCEPT !.grids = @ \cup {grid}] ELSE t

Commit(s) ==
    /\ occupancy_grid' = s.occupancy_grid
    /\ data_queue' = s.data_queue
    /\ received_packets' = s.received_packets
    /\ is_udp_running' = s.is_udp_running
    /\ navigation_goal_cell' = s.navigation_goal_cell
    /\ current_path' = s.current_path
    /\ navigation_state' = s.navigation_state
    /\ robot_orientation_map_deg' = s.robot_orientation_map_deg
    /\ current_action_info' = s.current_action_info
    /\ action_timer_id' = s.action_timer_id
    /\ last_command_sent_successful' = s.last_command_sent_successful
    /\ path_planner_thread' = Observed(s.path_planner_thread, s.occupancy_grid)
    /\ last_tx' = s.last_tx
    /\ motion_open' = s.motion_open
    /\ f_count' = s.f_count
    /\ halted' = s.halted
    /\ popped_cells' = s.popped_cells
    /\ UNCHANGED server_vars

\* The receiver thread waits in recvfrom; lost tells whether the datagram it
\* took last was dropped instead of queued, and utf8 whether the bytes of the
\* datagram it holds decode as UTF-8.
UdpIdle == [pc |-> "recvfrom", raw_data |-> None, lost |-> FALSE, utf8 |-> TRUE]

\* st holds the locals of a search that runs iteration by iteration, and grids
\* the grid states that have existed since its first iteration.
NoThread == [pc |-> "none", goal |-> None, blocked |-> None, st |-> None, grids |-> {}]
NewThread == [pc |-> "begin", goal |-> None, blocked |-> None, st |-> None, grids |-> {}]
\* The thread started because cell was found occupied at the head of the path.
ReplanThread(cell) == [NewThread EXCEPT !.blocked = cell]
\* path_planner_thread and path_planner_thread.is_alive()
ThreadAlive(t) == t.pc \in {"begin", "search", "exit"}

\* ------------------------------------------------------------ command channel
handle_command_send_error(s) ==
    LET s1 == [s EXCEPT !.last_command_sent_successful = FALSE,
                        !.action_timer_id = "none"]
    IN  IF s1.navigation_state \notin
              {NAV_STATE_IDLE, NAV_STATE_REACHED_GOAL, NAV_STATE_NO_PATH_FOUND}
        THEN [s1 EXCEPT !.navigation_state = NAV_STATE_ROBOT_CMD_ERROR]
        ELSE s1

\* ok is the outcome of the TCP exchange, should it be attempted.
send_command(s, command, ok) ==
    IF s.navigation_state = NAV_STATE_IDLE /\ command # "S"
    THEN [s EXCEPT !.ret = FALSE]
    ELSE IF ok
    THEN [s EXCEPT !.last_command_sent_successful = TRUE,
                   !.ret = TRUE,
                   !.last_tx = [cmd |-> command, ok |-> TRUE],
                   !.motion_open = (command # "S"),
                   !.f_count = IF command = "F" THEN Min(@ + 1, MaxFCount) ELSE @]
    ELSE handle_command_send_error(
             [s EXCEPT !.ret = FALSE,
                       !.last_tx = [cmd |-> command, ok |-> FALSE],
                       !.motion_open = IF command = "S" THEN FALSE ELSE @,
                       !.halted = IF command = "S" THEN @ ELSE TRUE])

\* ------------------------------------------------------------ ingestion
RECURSIVE DrainQueue(_, _)
DrainQueue(s, n) ==
    IF n = 0 \/ s.data_queue = <<>> THEN s
    ELSE DrainQueue(
             [s EXCEPT !.data_queue = Tail(@),
                       !.received_packets = @ + 1,
                       !.occupancy_grid =
                           update_occupancy_grid(@, Head(s.data_queue),
                                                 s.robot_orientation_map_deg)],
             n - 1)

\* A variant that decays an idle grid whether or not the feed is connected.
process_queued_data_DecayingOffline(s) ==
    LET s1 == DrainQueue(s, PACKETS_PER_CYCLE)
    IN  IF s.data_queue = <<>>
        THEN [s1 EXCEPT !.occupancy_grid = DecayGrid(@)]
        ELSE s1

process_queued_data(s) ==
    IF ~s.is_udp_running /\ s.data_queue = <<>> THEN s
    ELSE LET s1 == DrainQueue(s, PACKETS_PER_CYCLE)
             new_data_processed_this_cycle == s.data_queue # <<>>
         IN  IF ~new_data_processed_this_cycle /\ s1.is_udp_running
             THEN [s1 EXCEPT !.occupancy_grid = DecayGrid(@)]
             ELSE s1

\* ------------------------------------------------------------ planner callbacks
\* A variant that sends no stop when the robot is already at the goal.
path_planning_succeeded_Silent(s, path, ok) ==
    LET s1 == [s EXCEPT !.current_path = path]
    IN  IF path # <<>>
        THEN [s1 EXCEPT !.navigation_state = NAV_STATE_AWAITING_NEXT_STEP]
        ELSE IF s1.navigation_goal_cell = current_logical_robot_cell_on_path
        THEN [s1 EXCEPT !.navigation_state = NAV_STATE_REACHED_GOAL]
        ELSE [s1 EXCEPT !.navigation_state = NAV_STATE_NO_PATH_FOUND]

path_planning_succeeded(s, path, ok) ==
    LET s1 == [s EXCEPT !.current_path = path]
    IN  IF path # <<>>
        THEN [s1 EXCEPT !.navigation_state = NAV_STATE_AWAITING_NEXT_STEP]
        ELSE IF s1.navigation_goal_cell = current_logical_robot_cell_on_path
        THEN send_command([s1 EXCEPT !.navigation_state = NAV_STATE_REACHED_GOAL], "S", ok)
        ELSE [s1 EXCEPT !.navigation_state = NAV_STATE_NO_PATH_FOUND]

\* A variant that also forgets the goal.
path_planning_failed_ForgettingGoal(s) ==
    [s EXCEPT !.navigation_state = NAV_STATE_NO_PATH_FOUND, !.current_path = <<>>,
              !.navigation_goal_cell = None]

path_planning_failed(s) ==
    [s EXCEPT !.navigation_state = NAV_STATE_NO_PATH_FOUND, !.current_path = <<>>]

\* ------------------------------------------------------------ navigation step
TargetOrientation(dr, dc) ==
    CASE dr = -1 /\ dc = 0 -> 0
      [] dr = 1 /\ dc = 0 -> 180
      [] dr = 0 /\ dc = -1 -> 270
      [] dr = 0 /\ dc = 1 -> 90
      [] OTHER -> -1

NearAngle(diff, a) == diff > a - ANGLE_TOLERANCE /\ diff < a + ANGLE_TOLERANCE

TurnRightHeading(h) == (h + 90) % 360
\* A variant that turns left by adding 90 degrees.
TurnLeftHeading_Adding(h) == (h + 90) % 360

TurnLeftHeading(h) == (h - 90 + 360) % 360

\* A variant that updates the path and the heading whether or not the command
\* was sent.
CommandStep_Regardless(s, command_to_send, ok) ==
    LET s1 == send_command(s, command_to_send, ok)
        s2 == IF s.navigation_state = NAV_STATE_MOVING_FORWARD
              THEN [s1 EXCEPT !.current_path = Tail(@),
                              !.popped_cells = @ \cup {Head(s1.current_path)}]
              ELSE IF s.navigation_state = NAV_STATE_TURNING_LEFT
              THEN [s1 EXCEPT !.robot_orientation_map_deg = TurnLeftHeading(@)]
              ELSE IF s.navigation_state = NAV_STATE_TURNING_RIGHT
              THEN [s1 EXCEPT !.robot_orientation_map_deg = TurnRightHeading(@)]
              ELSE s1
    IN  IF s1.ret
        THEN [s2 EXCEPT !.current_action_info = "running",
                        !.action_timer_id = "on_action_completed"]
        ELSE s2

\* A variant that leaves the path and the heading alone when the command is
\* sent.
CommandStep_Deferring(s, command_to_send, ok) ==
    LET s1 == send_command(s, command_to_send, ok)
    IN  IF s1.ret
        THEN [s1 EXCEPT !.current_action_info = "running",
                        !.action_timer_id = "on_action_completed"]
        ELSE s1

\* Lines 735-771: send the chosen command and, if it was sent, update the
\* logical state and arm the action timer.  s already holds the motion state.
CommandStep(s, command_to_send, ok) ==
    LET s1 == send_command(s, command_to_send, ok)
    IN  IF s1.ret
        THEN LET s2 ==
                   IF s1.navigation_state = NAV_STATE_MOVING_FORWARD
                   THEN [s1 EXCEPT !.current_path = Tail(@),
                                   !.popped_cells = @ \cup {Head(s1.current_path)}]
                   ELSE IF s1.navigation_state = NAV_STATE_TURNING_LEFT
                   THEN [s1 EXCEPT !.robot_orientation_map_deg = TurnLeftHeading(@)]
                   ELSE IF s1.navigation_state = NAV_STATE_TURNING_RIGHT
                   THEN [s1 EXCEPT !.robot_orientation_map_deg = TurnRightHeading(@)]
                   ELSE s1
             IN  [s2 EXCEPT !.current_action_info = "running",
                            !.action_timer_id = "on_action_completed"]
        ELSE s1

\* A variant that starts a reversal with a left turn.
DecideMotion_LeftReversal(s, target_orientation_deg, ok) ==
    LET orientation_diff ==
            (target_orientation_deg - s.robot_orientation_map_deg + 360) % 360
        needs_turn == ~(Abs(orientation_diff) < ANGLE_TOLERANCE
                        \/ Abs(orientation_diff - 360) < ANGLE_TOLERANCE)
    IN  IF ~needs_turn
        THEN CommandStep([s EXCEPT !.navigation_state = NAV_STATE_MOVING_FORWARD], "F", ok)
        ELSE IF NearAngle(orientation_diff, 90)
        THEN CommandStep([s EXCEPT !.navigation_state = NAV_STATE_TURNING_RIGHT], "R", ok)
        ELSE IF NearAngle(orientation_diff, 270) \/ NearAngle(orientation_diff, 180)
        THEN CommandStep([s EXCEPT !.navigation_state = NAV_STATE_TURNING_LEFT], "L", ok)
        ELSE [send_command(s, "S", ok) EXCEPT
                 !.navigation_state = NAV_STATE_PATH_BLOCKED, !.current_path = <<>>]

\* Lines 676-733: forward if the heading matches, else one 90 degree turn.
DecideMotion(s, target_orientation_deg, ok) ==
    LET orientation_diff ==
            (target_orientation_deg - s.robot_orientation_map_deg + 360) % 360
        needs_turn == ~(Abs(orientation_diff) < ANGLE_TOLERANCE
                        \/ Abs(orientation_diff - 360) < ANGLE_TOLERANCE)
    IN  IF ~needs_turn
        THEN CommandStep([s EXCEPT !.navigation_state = NAV_STATE_MOVING_FORWARD], "F", ok)
        ELSE IF NearAngle(orientation_diff, 90) \/ NearAngle(orientation_diff, 180)
        THEN CommandStep([s EXCEPT !.navigation_state = NAV_STATE_TURNING_RIGHT], "R", ok)
        ELSE IF NearAngle(orientation_diff, 270)
        THEN CommandStep([s EXCEPT !.navigation_state = NAV_STATE_TURNING_LEFT], "L", ok)
        ELSE [send_command(s, "S", ok) EXCEPT
                 !.navigation_state = NAV_STATE_PATH_BLOCKED, !.current_path = <<>>]

\* Lines 622-640: the head of the path is occupied or out of the grid.
PathHeadBlocked(s, ok) ==
    LET s1 == [send_command(s, "S", ok) EXCEPT
                  !.navigation_state = NAV_STATE_PATH_BLOCKED, !.current_path = <<>>]
    IN  IF ~ThreadAlive(s1.path_planner_thread)
        THEN [s1 EXCEPT !.navigation_state = NAV_STATE_PLANNING,
                        !.path_planner_thread = ReplanThread(Head(s.current_path))]
        ELSE s1

\* A variant that does not look at the occupancy of the path head.
execute_navigation_step_Blind(s, ok) ==
    IF s.navigation_state \in
          { NAV_STATE_IDLE, NAV_STATE_PLANNING, NAV_STATE_REACHED_GOAL,
            NAV_STATE_NO_PATH_FOUND, NAV_STATE_PATH_BLOCKED, NAV_STATE_ROBOT_CMD_ERROR }
    THEN s
    ELSE IF s.current_action_info = "running" THEN s
    ELSE IF s.current_path = <<>>
    THEN IF s.navigation_goal_cell # None
            /\ current_logical_robot_cell_on_path = s.navigation_goal_cell
         THEN [s EXCEPT !.navigation_state = NAV_STATE_REACHED_GOAL]
         ELSE IF s.navigation_state # NAV_STATE_PATH_BLOCKED
         THEN [s EXCEPT !.navigation_state = NAV_STATE_NO_PATH_FOUND]
         ELSE s
    ELSE LET next_cell_in_world == Head(s.current_path)
             dr == next_cell_in_world[1] - current_logical_robot_cell_on_path[1]
             dc == next_cell_in_world[2] - current_logical_robot_cell_on_path[2]
             target_orientation_deg == TargetOrientation(dr, dc)
         IN  IF target_orientation_deg # -1
             THEN DecideMotion(s, target_orientation_deg, ok)
             ELSE IF dr = 0 /\ dc = 0
             THEN [s EXCEPT !.current_path = Tail(@),
                            !.navigation_state = NAV_STATE_AWAITING_NEXT_STEP,
                            !.action_timer_id = "on_action_completed_no_command"]
             ELSE [send_command(s, "S", ok) EXCEPT
                      !.navigation_state = NAV_STATE_PATH_BLOCKED,
                      !.current_path = <<>>]

execute_navigation_step(s, ok) ==
    IF s.navigation_state \in
          { NAV_STATE_IDLE, NAV_STATE_PLANNING, NAV_STATE_REACHED_GOAL,
            NAV_STATE_NO_PATH_FOUND, NAV_STATE_PATH_BLOCKED, NAV_STATE_ROBOT_CMD_ERROR }
    THEN s
    ELSE IF s.current_action_info = "running" THEN s
    ELSE IF s.current_path = <<>>
    THEN IF s.navigation_goal_cell # None
            /\ current_logical_robot_cell_on_path = s.navigation_goal_cell
         THEN [s EXCEPT !.navigation_state = NAV_STATE_REACHED_GOAL]
         ELSE IF s.navigation_state # NAV_STATE_PATH_BLOCKED
         THEN [s EXCEPT !.navigation_state = NAV_STATE_NO_PATH_FOUND]
         ELSE s
    ELSE LET next_cell_in_world == Head(s.current_path)
             dr == next_cell_in_world[1] - current_logical_robot_cell_on_path[1]
             dc == next_cell_in_world[2] - current_logical_robot_cell_on_path[2]
             target_orientation_deg == TargetOrientation(dr, dc)
         IN  IF ~is_valid_and_clear(s.occupancy_grid, next_cell_in_world)
             THEN PathHeadBlocked(s, ok)
             ELSE IF target_orientation_deg # -1
             THEN DecideMotion(s, target_orientation_deg, ok)
             ELSE IF dr = 0 /\ dc = 0
             THEN [s EXCEPT !.current_path = Tail(@),
                            !.navigation_state = NAV_STATE_AWAITING_NEXT_STEP,
                            !.action_timer_id = "on_action_completed_no_command"]
             ELSE [send_command(s, "S", ok) EXCEPT
                      !.navigation_state = NAV_STATE_PATH_BLOCKED,
                      !.current_path = <<>>]

on_action_completed(s, ok) ==
    LET s0 == [s EXCEPT !.action_timer_id = "none"]
    IN  IF ~s0.last_command_sent_successful THEN s0
        ELSE LET s1 == send_command(s0, "S", ok)
             IN  IF ~s1.ret THEN s1
                 ELSE IF s1.navigation_state \in
                           { NAV_STATE_MOVING_FORWARD, NAV_STATE_TURNING_LEFT,
                             NAV_STATE_TURNING_RIGHT, NAV_STATE_AWAITING_NEXT_STEP }
                 THEN IF s1.current_path = <<>>
                         /\ s1.navigation_goal_cell = current_logical_robot_cell_on_path
                      THEN [s1 EXCEPT !.navigation_state = NAV_STATE_REACHED_GOAL]
                      ELSE [s1 EXCEPT !.navigation_state = NAV_STATE_AWAITING_NEXT_STEP]
                 ELSE s1

on_action_completed_no_command(s) ==
    LET s0 == [s EXCEPT !.action_timer_id = "none"]
    IN  IF s0.navigation_state \notin
              { NAV_STATE_REACHED_GOAL, NAV_STATE_PATH_BLOCKED, NAV_STATE_NO_PATH_FOUND,
                NAV_STATE_PLANNING, NAV_STATE_IDLE, NAV_STATE_ROBOT_CMD_ERROR }
        THEN [s0 EXCEPT !.navigation_state = NAV_STATE_AWAITING_NEXT_STEP]
        ELSE s0

\* A variant that runs the navigation step whether or not the feed is
\* connected.
periodic_update_Offline(s, ok) ==
    execute_navigation_step(process_queued_data(s), ok)

periodic_update(s, ok) ==
    LET s1 == process_queued_data(s)
    IN  IF s1.is_udp_running THEN execute_navigation_step(s1, ok) ELSE s1

\* ------------------------------------------------------------ operator events
BusyStates ==
    { NAV_STATE_TURNING_LEFT, NAV_STATE_TURNING_RIGHT, NAV_STATE_MOVING_FORWARD,
      NAV_STATE_PLANNING }

\* A variant that starts a planner thread without asking is_alive().
SelectGoal_AlwaysStarting(s, cell) ==
    IF ~InBounds(cell) THEN s
    ELSE IF s.occupancy_grid[cell] >= RENDER_THRESHOLD * VAL_SCALE THEN s
    ELSE [s EXCEPT !.navigation_goal_cell = cell,
                   !.current_path = <<>>,
                   !.navigation_state = NAV_STATE_PLANNING,
                   !.f_count = 0,
                   !.halted = FALSE,
                   !.popped_cells = {},
                   !.path_planner_thread = NewThread]

\* A variant that accepts an occupied cell as the goal.
SelectGoal_IgnoringOccupancy(s, cell) ==
    IF ~InBounds(cell) THEN s
    ELSE LET s1 == [s EXCEPT !.navigation_goal_cell = cell,
                             !.current_path = <<>>,
                             !.navigation_state = NAV_STATE_PLANNING,
                             !.f_count = 0,
                             !.halted = FALSE,
                             !.popped_cells = {}]
         IN  IF ThreadAlive(s1.path_planner_thread) THEN s1
             ELSE [s1 EXCEPT !.path_planner_thread = NewThread]

\* Lines 423-449 of _handle_map_click: the clicked cell becomes the goal.
SelectGoal(s, cell) ==
    IF ~InBounds(cell) THEN s
    ELSE IF s.occupancy_grid[cell] >= RENDER_THRESHOLD * VAL_SCALE THEN s
    ELSE LET s1 == [s EXCEPT !.navigation_goal_cell = cell,
                             !.current_path = <<>>,
                             !.navigation_state = NAV_STATE_PLANNING,
                             !.f_count = 0,
                             !.halted = FALSE,
                             !.popped_cells = {}]
         IN  IF ThreadAlive(s1.path_planner_thread) THEN s1
             ELSE [s1 EXCEPT !.path_planner_thread = NewThread]

\* Lines 412-419: the operator confirmed the cancel of the current action.
CancelAction(s, ok) ==
    [send_command(s, "S", ok) EXCEPT
        !.action_timer_id = "none",
        !.navigation_state = NAV_STATE_IDLE,
        !.current_path = <<>>]

\* _handle_map_click: yes is the operator's answer to the askyesno dialog,
\* asked only when navigation is busy.
handle_map_click(s, cell, yes, ok) ==
    IF ~s.is_udp_running THEN s
    ELSE IF s.navigation_state \in BusyStates
    THEN IF yes THEN SelectGoal(CancelAction(s, ok), cell) ELSE s
    ELSE SelectGoal(s, cell)

toggle_connection(s, ok, bound) ==
    IF s.is_udp_running
    THEN LET s1 == IF s.navigation_state \notin
                        { NAV_STATE_IDLE, NAV_STATE_REACHED_GOAL,
                          NAV_STATE_NO_PATH_FOUND, NAV_STATE_ROBOT_CMD_ERROR }
                   THEN send_command(s, "S", ok)
                   ELSE s
         IN  [s1 EXCEPT !.is_udp_running = FALSE,
                        !.halted = FALSE,
                        !.popped_cells = {},
                        !.navigation_state = NAV_STATE_IDLE,
                        !.navigation_goal_cell = None,
                        !.current_path = <<>>,
                        !.robot_orientation_map_deg = 0,
                        !.action_timer_id = "none"]
    ELSE [s EXCEPT !.occupancy_grid = EmptyGrid,
                   !.halted = FALSE,
                   !.popped_cells = {},
                   !.received_packets = 0,
                   !.robot_orientation_map_deg = 0,
                   !.is_udp_running = bound]

\* ------------------------------------------------------------ inputs
\* A reading is <<bearing_deg, range_mm>>; a batch is a sequence of readings.
\* Two readings of the cell right in front of the robot: 50 >= RENDER_THRESHOLD.
BlockAhead == << <<0, CELL_SIZE_MM>>, <<0, CELL_SIZE_MM>> >>
CellAhead(k) == << grid_center_y_cell - k, grid_center_x_cell >>
\* The cells the operator clicks: the robot's own, two ahead, one to the right.
GoalChoices ==
    { current_logical_robot_cell_on_path, CellAhead(2),
      << grid_center_y_cell, grid_center_x_cell + 1 >> }

\* ------------------------------------------------------------ actions
\* root.after(DISPLAY_UPDATE_MS, self._periodic_update)
PeriodicUpdate(OK) ==
    /\ \E ok \in OK : Commit(periodic_update(Self, ok))
    /\ UNCHANGED << after_queue, udp_thread >>

\* The wall clock reaches current_action_info["end_time"].
TimePasses ==
    /\ current_action_info = "running"
    /\ current_action_info' = "elapsed"
    /\ last_tx' = NoTx
    /\ UNCHANGED server_vars
    /\ UNCHANGED << occupancy_grid, data_queue, received_packets, is_udp_running,
                    navigation_goal_cell, current_path, navigation_state,
                    robot_orientation_map_deg, action_timer_id,
                    last_command_sent_successful, path_planner_thread, after_queue,
                    motion_open, f_count, halted, popped_cells, udp_thread >>

\* The armed tk.after timer fires.  The action timer is armed after end_time
\* is computed, for the same duration, so it fires at or after end_time.
TimerFires(OK) ==
    /\ action_timer_id # "none"
    /\ action_timer_id = "on_action_completed" => current_action_info = "elapsed"
    /\ \E ok \in OK :
          Commit(IF action_timer_id = "on_action_completed"
                 THEN on_action_completed(Self, ok)
                 ELSE on_action_completed_no_command(Self))
    /\ UNCHANGED << after_queue, udp_thread >>

\* The event loop runs the oldest callback the planner thread posted.
AfterCallback(OK) ==
    /\ after_queue # <<>>
    /\ \E ok \in OK :
          Commit(IF Head(after_queue).fn = "succeeded"
                 THEN path_planning_succeeded(Self, Head(after_queue).path, ok)
                 ELSE path_planning_failed(Self))
    /\ after_queue' = Tail(after_queue)
    /\ UNCHANGED udp_thread

\* <Button-1> on the canvas.  If navigation is busy the askyesno dialog is
\* answered at once (yes); answering no leaves everything as it was.
MapClick(G, OK) ==
    /\ is_udp_running
    /\ \E cell \in G, yes \in BOOLEAN, ok \in OK :
          Commit(handle_map_click(Self, cell, yes, ok))
    /\ UNCHANGED << after_queue, udp_thread >>

\* The Connect / Disconnect button.
ToggleConnection(OK) ==
    /\ \E ok \in OK, bound \in BOOLEAN : Commit(toggle_connection(Self, ok, bound))
    /\ UNCHANGED << after_queue, udp_thread >>

\* _udp_receive_loop: one datagram is decoded and queued, the oldest dropped
\* if the queue is full.
UdpReceiveUpTo(B, limit) ==
    /\ is_udp_running
    /\ received_packets + Len(data_queue) < limit
    /\ \E batch \in B :
          data_queue' = IF Len(data_queue) = QUEUE_MAXSIZE
                        THEN Append(Tail(data_queue), batch)
                        ELSE Append(data_queue, batch)
    /\ last_tx' = NoTx
    /\ UNCHANGED server_vars
    /\ UNCHANGED << occupancy_grid, received_packets, is_udp_running,
                    navigation_goal_cell, current_path, navigation_state,
                    robot_orientation_map_deg, current_action_info, action_timer_id,
                    last_command_sent_successful, path_planner_thread, after_queue,
                    motion_open, f_count, halted, popped_cells, udp_thread >>

UdpReceive(B) == UdpReceiveUpTo(B, MaxPackets)

\* The same loop statement by statement, for the interleavings with the
\* draining ticks.  Lines 311-315: a datagram arrives and full() is read.
UdpRecvfromRaw(B, U, limit) ==
    /\ is_udp_running
    /\ udp_thread.pc = "recvfrom"
    /\ received_packets + Len(data_queue) < limit
    /\ \E batch \in B, utf8 \in U :
          udp_thread' = [pc |-> IF Len(data_queue) = QUEUE_MAXSIZE
                                THEN "get_nowait" ELSE "put_nowait",
                         raw_data |-> batch,
                         lost |-> FALSE,
                         utf8 |-> utf8]
    /\ last_tx' = NoTx
    /\ UNCHANGED server_vars
    /\ UNCHANGED << occupancy_grid, data_queue, received_packets, is_udp_running,
                    navigation_goal_cell, current_path, navigation_state,
                    robot_orientation_map_deg, current_action_info, action_timer_id,
                    last_command_sent_successful, path_planner_thread, after_queue,
                    motion_open, f_count, halted, popped_cells >>

\* The datagrams all decode.
UdpRecvfrom(B, limit) == UdpRecvfromRaw(B, {TRUE}, limit)

\* Line 316: get_nowait() discards the oldest batch; on an empty queue it
\* raises queue.Empty, which only the handler of line 324 catches, and the
\* iteration ends without the put.
UdpGetNowait ==
    /\ udp_thread.pc = "get_nowait"
    /\ IF data_queue = <<>>
       THEN /\ udp_thread' = [UdpIdle EXCEPT !.lost = TRUE]
            /\ data_queue' = data_queue
       ELSE /\ udp_thread' = [udp_thread EXCEPT !.pc = "put_nowait"]
            /\ data_queue' = Tail(data_queue)
    /\ last_tx' = NoTx
    /\ UNCHANGED server_vars
    /\ UNCHANGED << occupancy_grid, received_packets, is_udp_running,
                    navigation_goal_cell, current_path, navigation_state,
                    robot_orientation_map_deg, current_action_info, action_timer_id,
                    last_command_sent_successful, path_planner_thread, after_queue,
                    motion_open, f_count, halted, popped_cells >>

\* Lines 317-322: raw_data.decode('utf-8') is evaluated first and raises
\* UnicodeDecodeError on bytes that do not decode: the datagram is dropped.
\* Then put_nowait() of the decoded datagram; queue.Full drops it.
UdpPutNowait ==
    /\ udp_thread.pc = "put_nowait"
    /\ IF ~udp_thread.utf8 \/ Len(data_queue) = QUEUE_MAXSIZE
       THEN /\ udp_thread' = [UdpIdle EXCEPT !.lost = TRUE]
            /\ data_queue' = data_queue
       ELSE /\ udp_thread' = UdpIdle
            /\ data_queue' = Append(data_queue, udp_thread.raw_data)
    /\ last_tx' = NoTx
    /\ UNCHANGED server_vars
    /\ UNCHANGED << occupancy_grid, received_packets, is_udp_running,
                    navigation_goal_cell, current_path, navigation_state,
                    robot_orientation_map_deg, current_action_info, action_timer_id,
                    last_command_sent_successful, path_planner_thread, after_queue,
                    motion_open, f_count, halted, popped_cells >>

PlannerVars ==
    << occupancy_grid, data_queue, received_packets, is_udp_running,
       navigation_goal_cell, current_path, navigation_state,
       robot_orientation_map_deg, current_action_info, action_timer_id,
       last_command_sent_successful, motion_open, f_count, halted, popped_cells, udp_thread >>

\* blocked names the occupied cell whose discovery started the search, if any.
Callback(result, blocked) == [fn |-> result.fn, path |-> result.path, blocked |-> blocked]
FailedCallback(blocked) == Callback([fn |-> "failed", path |-> <<>>], blocked)

\* Lines 477-488 of _plan_path_threaded: read the goal and check it.
PlannerBegin ==
    /\ path_planner_thread.pc = "begin"
    /\ IF navigation_goal_cell = None
          \/ ~is_valid_and_clear(occupancy_grid, navigation_goal_cell)
       THEN /\ Len(after_queue) < MaxAfterQueue
            /\ after_queue' = Append(after_queue, FailedCallback(path_planner_thread.blocked))
            /\ path_planner_thread' =
                  [path_planner_thread EXCEPT !.pc = "exit", !.goal = navigation_goal_cell]
       ELSE /\ after_queue' = after_queue
            /\ path_planner_thread' =
                  [path_planner_thread EXCEPT !.pc = "search", !.goal = navigation_goal_cell]
    /\ last_tx' = NoTx
    /\ UNCHANGED server_vars
    /\ UNCHANGED PlannerVars

\* Lines 493-554: the A* search and the post of its result.
PlannerSearch ==
    /\ path_planner_thread.pc = "search"
    /\ Len(after_queue) < MaxAfterQueue
    /\ after_queue' =
          Append(after_queue, Callback(AStarSearch(occupancy_grid, path_planner_thread.goal),
                                        path_planner_thread.blocked))
    /\ path_planner_thread' = [path_planner_thread EXCEPT !.pc = "exit"]
    /\ last_tx' = NoTx
    /\ UNCHANGED server_vars
    /\ UNCHANGED PlannerVars

\* The same search iteration by iteration, each iteration reading the grid as
\* it is then: the thread takes no lock and no copy of occupancy_grid.
PlannerIterate ==
    /\ path_planner_thread.pc = "search"
    /\ LET st == IF path_planner_thread.st = None
                 THEN AStarInit(current_logical_robot_cell_on_path, path_planner_thread.goal)
                 ELSE path_planner_thread.st
       IN  /\ ~AStarDone(st)
           /\ path_planner_thread' =
                 [path_planner_thread EXCEPT
                     !.st = AStarStep(st, occupancy_grid, path_planner_thread.goal),
                     !.grids = @ \cup {occupancy_grid}]
    /\ last_tx' = NoTx
    /\ UNCHANGED server_vars
    /\ UNCHANGED PlannerVars
    /\ UNCHANGED after_queue

\* The loop is over: the result is posted with root.after(0, ...).
PlannerPost ==
    /\ path_planner_thread.pc = "search"
    /\ path_planner_thread.st # None
    /\ AStarDone(path_planner_thread.st)
    /\ Len(after_queue) < MaxAfterQueue
    /\ after_queue' =
          Append(after_queue, Callback(AStarResult(path_planner_thread.st,
                                                   path_planner_thread.goal),
                                        path_planner_thread.blocked))
    /\ path_planner_thread' = [path_planner_thread EXCEPT !.pc = "exit"]
    /\ last_tx' = NoTx
    /\ UNCHANGED server_vars
    /\ UNCHANGED PlannerVars

\* The thread function returns: is_alive() becomes false.
PlannerExit ==
    /\ path_planner_thread.pc = "exit"
    /\ path_planner_thread' = NoThread
    /\ last_tx' = NoTx
    /\ UNCHANGED server_vars
    /\ UNCHANGED PlannerVars
    /\ UNCHANGED << after_queue, udp_thread >>

\* ------------------------------------------------------------ sensor process
\* src/main_server.py.  send_command(command) of that file opens a TCP
\* connection to the motor server and swallows every error; ok tells whether
\* the command was transmitted.  by names the sender: the scan loop or a
\* button handler.
Transmit(command, by, ok) ==
    IF ok
    THEN /\ server_tx' = [cmd |-> command, by |-> by]
         /\ forward_locked' = CASE command = "K" -> TRUE
                                [] command = "U" -> FALSE
                                [] OTHER -> forward_locked
    ELSE /\ server_tx' = NoServerTx
         /\ forward_locked' = forward_locked

\* max_retries of _reconnect_worker.
MAX_RETRIES == 5
INITIAL_MAX_RETRIES == 10

NewWorker(initial_attempt) ==
    [pc |-> "attempt", attempt |-> 0,
     max_retries |-> IF initial_attempt THEN INITIAL_MAX_RETRIES ELSE MAX_RETRIES]

\* Lines 502-534.  caller is the thread that makes the call.  Once the flag
\* is set, the caller joins scan_thread if it is alive: join() on the calling
\* thread itself raises RuntimeError, which leaves the function before the
\* worker is created.
attempt_lidar_reconnect(caller, initial_attempt) ==
    IF is_reconnecting_lidar
    THEN UNCHANGED << is_reconnecting_lidar, is_scanning, lidar_reconnect_thread >>
    ELSE /\ is_reconnecting_lidar' = TRUE
         /\ is_scanning' = FALSE
         /\ IF caller = "scan" /\ scan_thread # "none"
            THEN lidar_reconnect_thread' = lidar_reconnect_thread
            ELSE lidar_reconnect_thread' = NewWorker(initial_attempt)

\* Lines 795-804.
run_demo_mode ==
    IF demo_thread = "none"
    THEN /\ is_scanning' = TRUE
         /\ is_reconnecting_lidar' = FALSE
         /\ demo_thread' = "iter_scans"
    ELSE UNCHANGED << is_scanning, is_reconnecting_lidar, demo_thread >>

\* Line 132 and 350-373, on the Tk thread: the lidar is found and a scan
\* thread is started (ok), or a reconnection is attempted.
InitializeLidar(OK) ==
    /\ main_thread = "initialize"
    /\ main_thread' = "mainloop"
    /\ \E ok \in OK :
          IF ok
          THEN /\ is_scanning' = TRUE
               /\ scan_thread' = "iter_scans"
               /\ UNCHANGED << is_reconnecting_lidar, lidar_reconnect_thread >>
          ELSE /\ attempt_lidar_reconnect("main", TRUE)
               /\ scan_thread' = scan_thread
    /\ UNCHANGED << car_locked, demo_thread, server_tx, forward_locked >>
    /\ UNCHANGED viewer_vars

\* The position of the loop thread t, "scan" or "demo", and its assignment.
LoopPc(t) == IF t = "scan" THEN scan_thread ELSE demo_thread
SetLoopPc(t, pc) ==
    IF t = "scan"
    THEN scan_thread' = pc /\ demo_thread' = demo_thread
    ELSE demo_thread' = pc /\ scan_thread' = scan_thread

\* Lines 460-474 and 709-729 (807-856 for the demo loop): a scan arrives
\* while is_scanning is set, the obstacle detection gives obstacle_present,
\* and manage_autonomous_maneuver reads car_locked.  Apart from exit_app,
\* which ends the process, is_scanning is cleared only by the scan thread
\* in its own error handler or while no loop runs.
ScanProcessed(t, O) ==
    /\ LoopPc(t) = "iter_scans"
    /\ is_scanning
    /\ \E obstacle_present \in O :
          SetLoopPc(t, IF obstacle_present /\ ~car_locked THEN "send_S"
                       ELSE IF ~obstacle_present /\ car_locked THEN "send_U"
                       ELSE "iter_scans")
    /\ UNCHANGED << car_locked, is_scanning, is_reconnecting_lidar,
                    lidar_reconnect_thread, main_thread, server_tx, forward_locked >>
    /\ UNCHANGED viewer_vars

\* Line 715: self._execute_motor_stop_all_movement()
ManeuverStop(t, OK) ==
    /\ LoopPc(t) = "send_S"
    /\ \E ok \in OK : Transmit("S", "scan", ok)
    /\ SetLoopPc(t, "send_K")
    /\ UNCHANGED << car_locked, is_scanning, is_reconnecting_lidar,
                    lidar_reconnect_thread, main_thread >>
    /\ UNCHANGED viewer_vars

\* Line 716: send_command('K')
ManeuverLock(t, OK) ==
    /\ LoopPc(t) = "send_K"
    /\ \E ok \in OK : Transmit("K", "scan", ok)
    /\ SetLoopPc(t, "set_car_locked")
    /\ UNCHANGED << car_locked, is_scanning, is_reconnecting_lidar,
                    lidar_reconnect_thread, main_thread >>
    /\ UNCHANGED viewer_vars

\* Line 717: self.car_locked = True
ManeuverSetLocked(t) ==
    /\ LoopPc(t) = "set_car_locked"
    /\ car_locked' = TRUE
    /\ SetLoopPc(t, "iter_scans")
    /\ UNCHANGED << is_scanning, is_reconnecting_lidar, lidar_reconnect_thread,
                    main_thread, server_tx, forward_locked >>
    /\ UNCHANGED viewer_vars

\* Line 725: send_command('U')
ManeuverUnlock(t, OK) ==
    /\ LoopPc(t) = "send_U"
    /\ \E ok \in OK : Transmit("U", "scan", ok)
    /\ SetLoopPc(t, "clear_car_locked")
    /\ UNCHANGED << car_locked, is_scanning, is_reconnecting_lidar,
                    lidar_reconnect_thread, main_thread >>
    /\ UNCHANGED viewer_vars

\* Line 726: self.car_locked = False
ManeuverClearLocked(t) ==
    /\ LoopPc(t) = "clear_car_locked"
    /\ car_locked' = FALSE
    /\ SetLoopPc(t, "iter_scans")
    /\ UNCHANGED << is_scanning, is_reconnecting_lidar, lidar_reconnect_thread,
                    main_thread, server_tx, forward_locked >>
    /\ UNCHANGED viewer_vars

\* Lines 480-489: iter_scans raises RPLidarException or SerialException; the
\* handler clears is_scanning.
ScanError ==
    /\ scan_thread = "iter_scans"
    /\ is_scanning' = FALSE
    /\ scan_thread' = "except"
    /\ UNCHANGED << car_locked, is_reconnecting_lidar, demo_thread,
                    lidar_reconnect_thread, main_thread, server_tx, forward_locked >>
    /\ UNCHANGED viewer_vars

\* Lines 484/489, then 500 or the death of the thread: the handler calls
\* attempt_lidar_reconnect() on the scan thread, and the thread ends.
ScanErrorHandled ==
    /\ scan_thread = "except"
    /\ attempt_lidar_reconnect("scan", FALSE)
    /\ scan_thread' = "none"
    /\ UNCHANGED << car_locked, demo_thread, main_thread, server_tx, forward_locked >>
    /\ UNCHANGED viewer_vars

\* Lines 541-563: one turn of the worker's loop.  ok: the port was found and
\* _connect_and_start_lidar_scan started a scan thread.
WorkerAttempt(OK) ==
    /\ lidar_reconnect_thread.pc = "attempt"
    /\ IF ~is_reconnecting_lidar
       THEN /\ lidar_reconnect_thread' = [lidar_reconnect_thread EXCEPT !.pc = "failed"]
            /\ UNCHANGED << is_scanning, scan_thread >>
       ELSE \E ok \in OK :
               IF ok
               THEN /\ is_scanning' = TRUE
                    /\ scan_thread' = "iter_scans"
                    /\ lidar_reconnect_thread' =
                          [lidar_reconnect_thread EXCEPT !.pc = "connected"]
               ELSE /\ lidar_reconnect_thread' =
                          [lidar_reconnect_thread EXCEPT
                              !.attempt = @ + 1,
                              !.pc = IF lidar_reconnect_thread.attempt + 1
                                          < lidar_reconnect_thread.max_retries
                                     THEN "sleep" ELSE "failed"]
                    /\ UNCHANGED << is_scanning, scan_thread >>
    /\ UNCHANGED << car_locked, is_reconnecting_lidar, demo_thread, main_thread,
                    server_tx, forward_locked >>
    /\ UNCHANGED viewer_vars

\* Lines 553-554: the flag is cleared after the scan thread was started.
WorkerConnected ==
    /\ lidar_reconnect_thread.pc = "connected"
    /\ is_reconnecting_lidar' = FALSE
    /\ lidar_reconnect_thread' = NoWorker
    /\ UNCHANGED << car_locked, is_scanning, scan_thread, demo_thread, main_thread,
                    server_tx, forward_locked >>
    /\ UNCHANGED viewer_vars

\* Lines 556-563: the wait between two attempts.
WorkerSleep ==
    /\ lidar_reconnect_thread.pc = "sleep"
    /\ lidar_reconnect_thread' =
          [lidar_reconnect_thread EXCEPT
              !.pc = IF is_reconnecting_lidar THEN "attempt" ELSE "failed"]
    /\ UNCHANGED << car_locked, is_scanning, is_reconnecting_lidar, scan_thread,
                    demo_thread, main_thread, server_tx, forward_locked >>
    /\ UNCHANGED viewer_vars

\* Lines 565-571: no attempt succeeded; the flag is cleared and the demo
\* loop is started.
WorkerFailed ==
    /\ lidar_reconnect_thread.pc = "failed"
    /\ IF demo_thread = "none"
       THEN run_demo_mode
       ELSE /\ is_reconnecting_lidar' = FALSE
            /\ UNCHANGED << is_scanning, demo_thread >>
    /\ lidar_reconnect_thread' = NoWorker
    /\ UNCHANGED << car_locked, scan_thread, main_thread, server_tx, forward_locked >>
    /\ UNCHANGED viewer_vars

\* Lines 957-964 and 891-903: forward_pressed asks
\* _is_manual_control_allowed("forward"), which reads car_locked.
ForwardPressed ==
    /\ main_thread = "mainloop"
    /\ main_thread' = IF car_locked THEN "mainloop" ELSE "move_forward"
    /\ UNCHANGED << car_locked, is_scanning, is_reconnecting_lidar, scan_thread,
                    demo_thread, lidar_reconnect_thread, server_tx, forward_locked >>
    /\ UNCHANGED viewer_vars

\* Line 964: self._execute_motor_move_forward()
ForwardSend(OK) ==
    /\ main_thread = "move_forward"
    /\ \E ok \in OK : Transmit("F", "manual", ok)
    /\ main_thread' = "mainloop"
    /\ UNCHANGED << car_locked, is_scanning, is_reconnecting_lidar, scan_thread,
                    demo_thread, lidar_reconnect_thread >>
    /\ UNCHANGED viewer_vars

\* Lines 966-970: forward_released stops the car unless forward is locked.
ForwardReleased(OK) ==
    /\ main_thread = "mainloop"
    /\ ~car_locked
    /\ \E ok \in OK : Transmit("S", "manual", ok)
    /\ UNCHANGED << car_locked, is_scanning, is_reconnecting_lidar, scan_thread,
                    demo_thread, lidar_reconnect_thread, main_thread >>
    /\ UNCHANGED viewer_vars

\* Lines 977-1033: the backward, left and right buttons are allowed whether
\* or not forward is locked.
EvasivePressed(OK) ==
    /\ main_thread = "mainloop"
    /\ \E command \in {"B", "L", "R"}, ok \in OK : Transmit(command, "manual", ok)
    /\ UNCHANGED << car_locked, is_scanning, is_reconnecting_lidar, scan_thread,
                    demo_thread, lidar_reconnect_thread, main_thread >>
    /\ UNCHANGED viewer_vars

\* ------------------------------------------------------------ specifications
Init ==
    /\ occupancy_grid = EmptyGrid
    /\ data_queue = <<>>
    /\ received_packets = 0
    /\ is_udp_running = FALSE
    /\ navigation_goal_cell = None
    /\ current_path = <<>>
    /\ navigation_state = NAV_STATE_IDLE
    /\ robot_orientation_map_deg = 0
    /\ current_action_info = "elapsed"
    /\ action_timer_id = "none"
    /\ last_command_sent_successful = TRUE
    /\ path_planner_thread = NoThread
    /\ after_queue = <<>>
    /\ last_tx = NoTx
    /\ motion_open = FALSE
    /\ f_count = 0
    /\ halted = FALSE
    /\ popped_cells = {}
    /\ udp_thread = UdpIdle
    /\ ServerInit

\* The event loop, the planner thread and the operator; no sensor data.
NextOf(OK, G) ==
    \/ PeriodicUpdate(OK)
    \/ TimePasses
    \/ TimerFires(OK)
    \/ AfterCallback(OK)
    \/ MapClick(G, OK)
    \/ ToggleConnection(OK)
    \/ PlannerBegin
    \/ PlannerSearch
    \/ PlannerExit

Next == NextOf(BOOLEAN, GoalChoices)

Spec == Init /\ [][Next]_vars

\* The operator connects the sensor feed and selects the cell two ahead; the
\* feed delivers batches that hit the cell in front of the robot.
Connect(OK) == ~is_udp_running /\ ToggleConnection(OK)

NextSense ==
    \/ PeriodicUpdate(BOOLEAN)
    \/ TimePasses
    \/ TimerFires(BOOLEAN)
    \/ AfterCallback(BOOLEAN)
    \/ MapClick({CellAhead(2)}, BOOLEAN)
    \/ Connect(BOOLEAN)
    \/ UdpReceive({BlockAhead})
    \/ PlannerBegin
    \/ PlannerSearch
    \/ PlannerExit

SpecSense == Init /\ [][NextSense]_vars

\* The straight-run scenario: nothing fails, the grid stays empty, every
\* action timer fires on time, and the operator connects and selects goals k
\* cells straight ahead.
AheadGoals == { CellAhead(k) : k \in 1 .. grid_center_y_cell }

\* The best case for the action timer: it fires as soon as end_time is
\* reached, before any tick can see the action as over.
ActionCompletes(OK) ==
    /\ action_timer_id = "on_action_completed"
    /\ current_action_info = "running"
    /\ \E ok \in OK :
          Commit(on_action_completed([Self EXCEPT !.current_action_info = "elapsed"], ok))
    /\ UNCHANGED << after_queue, udp_thread >>

\* end_time of an action whose timer was cancelled is reached.
CancelledActionExpires == action_timer_id = "none" /\ TimePasses

NextScenario ==
    \/ PeriodicUpdate({TRUE})
    \/ CancelledActionExpires
    \/ ActionCompletes({TRUE})
    \/ AfterCallback({TRUE})
    \/ MapClick(AheadGoals, {TRUE})
    \/ Connect({TRUE})
    \/ PlannerBegin
    \/ PlannerSearch
    \/ PlannerExit

SpecScenario == Init /\ [][NextScenario]_vars

\* The planner alone: a goal has been selected, the thread has been started,
\* and the grid holds up to MaxObstacles saturated cells.
RECURSIVE SetsUpTo(_)
SetsUpTo(k) ==
    IF k = 0 THEN { {} }
    ELSE LET smaller == SetsUpTo(k - 1)
         IN  smaller \cup { O \cup {c} : O \in smaller, c \in Cells }
ObstacleSets == SetsUpTo(MaxObstacles)
GridOf(O) == [c \in Cells |-> IF c \in O THEN MAX_CELL_VALUE * VAL_SCALE ELSE 0]

InitPlan ==
    /\ occupancy_grid \in { GridOf(O) : O \in ObstacleSets }
    /\ navigation_goal_cell \in Cells
    /\ data_queue = <<>>
    /\ received_packets = 0
    /\ is_udp_running = TRUE
    /\ current_path = <<>>
    /\ navigation_state = NAV_STATE_PLANNING
    /\ robot_orientation_map_deg = 0
    /\ current_action_info = "elapsed"
    /\ action_timer_id = "none"
    /\ last_command_sent_successful = TRUE
    /\ path_planner_thread = NewThread
    /\ after_queue = <<>>
    /\ last_tx = NoTx
    /\ motion_open = FALSE
    /\ f_count = 0
    /\ halted = FALSE
    /\ popped_cells = {}
    /\ udp_thread = UdpIdle
    /\ ServerInit

NextPlan ==
    \/ PlannerBegin
    \/ PlannerSearch
    \/ PlannerExit
    \/ AfterCallback(BOOLEAN)

SpecPlan == InitPlan /\ [][NextPlan]_vars

\* The grid alone: the feed is connected, no goal is ever selected, and the
\* batches hit one cell often enough to saturate it, hit other cells, and
\* carry readings out of range.
SevenAhead == [i \in 1 .. 7 |-> <<0, CELL_SIZE_MM>>]
Spread ==
    << <<90, CELL_SIZE_MM>>, <<180, CELL_SIZE_MM>>, <<0, 0>>,
       <<0, MAX_LIDAR_RANGE_MM_DISPLAY + 1>>, <<270, MAP_SIZE_MM>> >>
GridBatches == { SevenAhead, Spread, BlockAhead }

NextGrid ==
    \/ PeriodicUpdate({TRUE})
    \/ Connect({TRUE})
    \/ UdpReceiveUpTo(GridBatches, MaxGridPackets)

SpecGrid == Init /\ [][NextGrid]_vars

\* Decay alone: the feed is connected and silent, and every cell starts at
\* one of the values DecaySamples.
DecaySampleStep == VAL_SCALE \div 4
DecaySamples ==
    { k * DecaySampleStep : k \in 0 .. (MAX_CELL_VALUE * VAL_SCALE) \div DecaySampleStep }

InitDecay ==
    /\ occupancy_grid \in { [c \in Cells |-> v] : v \in DecaySamples }
    /\ data_queue = <<>>
    /\ received_packets = 0
    /\ is_udp_running = TRUE
    /\ navigation_goal_cell = None
    /\ current_path = <<>>
    /\ navigation_state = NAV_STATE_IDLE
    /\ robot_orientation_map_deg = 0
    /\ current_action_info = "elapsed"
    /\ action_timer_id = "none"
    /\ last_command_sent_successful = TRUE
    /\ path_planner_thread = NoThread
    /\ after_queue = <<>>
    /\ last_tx = NoTx
    /\ motion_open = FALSE
    /\ f_count = 0
    /\ halted = FALSE
    /\ popped_cells = {}
    /\ udp_thread = UdpIdle
    /\ ServerInit

NextDecay == PeriodicUpdate({TRUE})

SpecDecay == InitDecay /\ [][NextDecay]_vars

\* The feed switched on and off: two kinds of batches, so that the order of
\* the queue shows, and the operator disconnects and reconnects at any time.
FeedBatches == { BlockAhead, Spread }

NextFeed ==
    \/ PeriodicUpdate({TRUE})
    \/ ToggleConnection({TRUE})
    \/ UdpReceiveUpTo(FeedBatches, MaxGridPackets)

SpecFeed == Init /\ [][NextFeed]_vars

\* Queueing: the receiver thread runs statement by statement against the
\* ticks that drain the queue.  The two batches differ, so that the order of
\* the queue shows, and carry readings the grid ignores (no echo, an echo
\* beyond the displayed range), so that only the queue varies.
MaxQueuePackets == 6

QueueBatches == { << <<0, 0>> >>, << <<0, MAX_LIDAR_RANGE_MM_DISPLAY + 1>> >> }

NextQueue ==
    \/ PeriodicUpdate({TRUE})
    \/ Connect({TRUE})
    \/ UdpRecvfrom(QueueBatches, MaxQueuePackets)
    \/ UdpGetNowait
    \/ UdpPutNowait

SpecQueue == Init /\ [][NextQueue]_vars

\* Replanning: one goal two cells ahead is selected once, every send
\* succeeds, every timer fires on time, and one scan reports the goal cell.
GoalAheadScan ==
    << <<0, 2 * CELL_SIZE_MM>>, <<0, 2 * CELL_SIZE_MM>> >>

SelectOnce == navigation_goal_cell = None /\ MapClick({CellAhead(2)}, {TRUE})

NextReplan ==
    \/ PeriodicUpdate({TRUE})
    \/ ActionCompletes({TRUE})
    \/ AfterCallback({TRUE})
    \/ SelectOnce
    \/ Connect({TRUE})
    \/ UdpReceive({GoalAheadScan})
    \/ PlannerBegin
    \/ PlannerSearch
    \/ PlannerExit

SpecReplan == Init /\ [][NextReplan]_vars

\* Planning against a moving grid: one goal is selected once, the feed marks
\* the two cells on the way to it, and the search runs iteration by iteration
\* between the ticks.  The posted result stays in the event queue: what the
\* controller does with it is not what is looked at here.
TearGoal == << grid_center_y_cell + 1, grid_center_x_cell - 2 >>

LeftNear == << <<270, CELL_SIZE_MM>>, <<270, CELL_SIZE_MM>> >>
LeftFar == << <<270, 2 * CELL_SIZE_MM>>, <<270, 2 * CELL_SIZE_MM>> >>
TearBatches == { LeftNear, LeftFar }

MaxTearPackets == 2

NextTear ==
    \/ PeriodicUpdate({TRUE})
    \/ (navigation_goal_cell = None /\ MapClick({TearGoal}, {TRUE}))
    \/ Connect({TRUE})
    \/ UdpReceiveUpTo(TearBatches, MaxTearPackets)
    \/ PlannerBegin
    \/ PlannerIterate
    \/ PlannerPost
    \/ PlannerExit

SpecTear == Init /\ [][NextTear]_vars

\* Clicking anywhere: the feed is connected and the operator clicks the cell
\* ahead, the cell two ahead and points of the canvas beyond the grid's last
\* row and last column, at any time while the planner runs; any of the cells
\* clicked may be marked.
ClickCells ==
    { CellAhead(1), CellAhead(2),
      << GRID_DIMENSION, grid_center_x_cell >>,
      << grid_center_y_cell, GRID_DIMENSION >> }

\* The values a marked cell holds: saturated, and two hits decayed twice
\* (40.5, still occupied) or three times (36.45, free again).
TwoHits == 2 * HIT_INCREMENT * VAL_SCALE
ClickValues ==
    { MAX_CELL_VALUE * VAL_SCALE,
      DecayValue(DecayValue(TwoHits)),
      DecayValue(DecayValue(DecayValue(TwoHits))) }

InitClick ==
    /\ occupancy_grid \in
          { [c \in Cells |-> IF c \in O THEN v ELSE 0] :
                O \in SUBSET (ClickCells \cap Cells), v \in ClickValues }
    /\ navigation_goal_cell = None
    /\ data_queue = <<>>
    /\ received_packets = 0
    /\ is_udp_running = TRUE
    /\ current_path = <<>>
    /\ navigation_state = NAV_STATE_IDLE
    /\ robot_orientation_map_deg = 0
    /\ current_action_info = "elapsed"
    /\ action_timer_id = "none"
    /\ last_command_sent_successful = TRUE
    /\ path_planner_thread = NoThread
    /\ after_queue = <<>>
    /\ last_tx = NoTx
    /\ motion_open = FALSE
    /\ f_count = 0
    /\ halted = FALSE
    /\ popped_cells = {}
    /\ udp_thread = UdpIdle
    /\ ServerInit

NextClick ==
    \/ MapClick(ClickCells, {TRUE})
    \/ AfterCallback({TRUE})
    \/ PlannerBegin
    \/ PlannerSearch
    \/ PlannerExit

SpecClick == InitClick /\ [][NextClick]_vars

\* Turning: the operator selects the four cells next to the robot, so that
\* every heading and both turn commands occur; no send fails.
NeighbourGoals ==
    { << grid_center_y_cell + off[1], grid_center_x_cell + off[2] >> :
          off \in Range(NeighborOffsets) }

NextTurn == NextOf({TRUE}, NeighbourGoals)

SpecTurn == Init /\ [][NextTurn]_vars

\* Driving under a live feed: the operator selects the cell two ahead or the
\* cell on the right, each time after the planner has finished with the goal
\* before; the feed marks the cell in front of the robot, and no send fails.
DriveGoals == { CellAhead(2), << grid_center_y_cell, grid_center_x_cell + 1 >> }

SelectWhenQuiet ==
    /\ ~ThreadAlive(path_planner_thread)
    /\ after_queue = <<>>
    /\ MapClick(DriveGoals, {TRUE})

NextDrive ==
    \/ PeriodicUpdate({TRUE})
    \/ TimePasses
    \/ TimerFires({TRUE})
    \/ AfterCallback({TRUE})
    \/ SelectWhenQuiet
    \/ Connect({TRUE})
    \/ UdpReceive({BlockAhead})
    \/ PlannerBegin
    \/ PlannerSearch
    \/ PlannerExit

SpecDrive == Init /\ [][NextDrive]_vars

\* Goal selection at any time, with the scheduling the runtime guarantees: a
\* started thread runs to its end, and the Tk event loop runs every posted
\* callback, every due timer and the periodic tick.  The operator is under no
\* obligation to click.
NextDeferred ==
    \/ PeriodicUpdate({TRUE})
    \/ TimePasses
    \/ TimerFires({TRUE})
    \/ AfterCallback({TRUE})
    \/ MapClick(DriveGoals, {TRUE})
    \/ Connect({TRUE})
    \/ PlannerBegin
    \/ PlannerIterate
    \/ PlannerPost
    \/ PlannerExit

EventLoopFairness ==
    /\ WF_vars(PeriodicUpdate({TRUE}))
    /\ WF_vars(TimePasses)
    /\ WF_vars(TimerFires({TRUE}))
    /\ WF_vars(AfterCallback({TRUE}))

PlannerFairness ==
    /\ WF_vars(PlannerBegin)
    /\ WF_vars(PlannerIterate)
    /\ WF_vars(PlannerPost)
    /\ WF_vars(PlannerExit)

SpecDeferred ==
    Init /\ [][NextDeferred]_vars /\ EventLoopFairness /\ PlannerFairness

\* A blockage under the same scheduling: the operator selects the cell in
\* front of the robot, once, and the feed marks that very cell.
SelectFront == navigation_goal_cell = None /\ MapClick({CellAhead(1)}, {TRUE})

NextBlocked ==
    \/ PeriodicUpdate({TRUE})
    \/ TimePasses
    \/ TimerFires({TRUE})
    \/ AfterCallback({TRUE})
    \/ SelectFront
    \/ Connect({TRUE})
    \/ UdpReceive({BlockAhead})
    \/ PlannerBegin
    \/ PlannerIterate
    \/ PlannerPost
    \/ PlannerExit

SpecBlocked ==
    Init /\ [][NextBlocked]_vars /\ EventLoopFairness /\ PlannerFairness

\* The planner alone, its search taken iteration by iteration on a grid that
\* does not change meanwhile.
NextSearch ==
    \/ PlannerBegin
    \/ PlannerIterate
    \/ PlannerPost
    \/ PlannerExit
    \/ AfterCallback(BOOLEAN)

SpecSearch == InitPlan /\ [][NextSearch]_vars

\* The edges of the grid: the feed is connected, no goal is ever selected, and
\* the readings land one cell beyond the left, top, right and bottom edge and
\* on the robot's right neighbour.
JustLeft == << <<270, (grid_center_x_cell + 1) * CELL_SIZE_MM>> >>
JustAbove == << <<0, (grid_center_y_cell + 1) * CELL_SIZE_MM>> >>
JustRightAndBelow ==
    << <<90, (GRID_DIMENSION - grid_center_x_cell) * CELL_SIZE_MM>>,
       <<180, (GRID_DIMENSION - grid_center_y_cell) * CELL_SIZE_MM>>,
       <<90, CELL_SIZE_MM>> >>
EdgeBatches == { JustLeft, JustAbove, JustRightAndBelow }

NextEdge ==
    \/ PeriodicUpdate({TRUE})
    \/ Connect({TRUE})
    \/ UdpReceiveUpTo(EdgeBatches, MaxGridPackets)

SpecEdge == Init /\ [][NextEdge]_vars

\* Malformed readings: the feed is connected, no goal is ever selected, and
\* the batches carry, between readings that hit cells, an empty reading, a
\* reading of one field, one of three fields and readings with a field that
\* is no number; one batch is malformed throughout and one is the empty text.
Mixed ==
    << <<>>, <<0, CELL_SIZE_MM>>, <<NotANumber, CELL_SIZE_MM>>, <<90, CELL_SIZE_MM>>,
       <<0>>, <<0, CELL_SIZE_MM, 7>>, <<0, NotANumber>>, <<180, CELL_SIZE_MM>>, <<>> >>
AllMalformed == << <<>>, <<NotANumber, NotANumber>>, <<CELL_SIZE_MM>> >>
MalformedBatches == { Mixed, AllMalformed, <<>> }

NextMalformed ==
    \/ PeriodicUpdate({TRUE})
    \/ Connect({TRUE})
    \/ UdpReceiveUpTo(MalformedBatches, MaxGridPackets)

SpecMalformed == Init /\ [][NextMalformed]_vars

\* Undecodable datagrams: the receiver thread statement by statement against
\* the draining ticks, any datagram being either text or bytes that are not
\* UTF-8.
NextUtf8 ==
    \/ PeriodicUpdate({TRUE})
    \/ Connect({TRUE})
    \/ UdpRecvfromRaw(QueueBatches, BOOLEAN, MaxQueuePackets)
    \/ UdpGetNowait
    \/ UdpPutNowait

SpecUtf8 == Init /\ [][NextUtf8]_vars

\* The reactive safety layer of the sensor process: the lidar is found at
\* start-up, every scan shows an obstacle in front or none, a command
\* reaches the motor server or not, and the operator uses the manual buttons.
NextSafetyLayer ==
    \/ InitializeLidar({TRUE})
    \/ ScanProcessed("scan", BOOLEAN)
    \/ ManeuverStop("scan", BOOLEAN)
    \/ ManeuverLock("scan", BOOLEAN)
    \/ ManeuverSetLocked("scan")
    \/ ManeuverUnlock("scan", BOOLEAN)
    \/ ManeuverClearLocked("scan")
    \/ ForwardPressed
    \/ ForwardSend(BOOLEAN)
    \/ ForwardReleased(BOOLEAN)
    \/ EvasivePressed(BOOLEAN)

SpecSafetyLayer == Init /\ [][NextSafetyLayer]_vars

\* The lidar connection of the sensor process: the first connection on the
\* Tk thread, the scan loop and its errors, the reconnect worker and the
\* demo loop.  No button is pressed.
NextReconnect ==
    \/ InitializeLidar(BOOLEAN)
    \/ ScanProcessed("scan", BOOLEAN)
    \/ ScanProcessed("demo", BOOLEAN)
    \/ ManeuverStop("scan", {TRUE})
    \/ ManeuverStop("demo", {TRUE})
    \/ ManeuverLock("scan", {TRUE})
    \/ ManeuverLock("demo", {TRUE})
    \/ ManeuverSetLocked("scan")
    \/ ManeuverSetLocked("demo")
    \/ ManeuverUnlock("scan", {TRUE})
    \/ ManeuverUnlock("demo", {TRUE})
    \/ ManeuverClearLocked("scan")
    \/ ManeuverClearLocked("demo")
    \/ ScanError
    \/ ScanErrorHandled
    \/ WorkerAttempt(BOOLEAN)
    \/ WorkerConnected
    \/ WorkerSleep
    \/ WorkerFailed

\* Every started thread keeps running until it ends: the steps that are the
\* program's own are taken when they stay possible.  The lidar is not
\* obliged to fail, nor to deliver a scan.
ReconnectFairness ==
    /\ WF_vars(InitializeLidar(BOOLEAN))
    /\ WF_vars(ScanErrorHandled)
    /\ WF_vars(WorkerAttempt(BOOLEAN))
    /\ WF_vars(WorkerConnected)
    /\ WF_vars(WorkerSleep)
    /\ WF_vars(WorkerFailed)

SpecReconnect == Init /\ [][NextReconnect]_vars /\ ReconnectFairness

\* ------------------------------------------------------------ properties
Free(grid, cell) == grid[cell] < RENDER_THRESHOLD * VAL_SCALE
Adjacent(a, b) == Abs(a[1] - b[1]) + Abs(a[2] - b[2]) = 1
StartCell == << GRID_DIMENSION \div 2, GRID_DIMENSION \div 2 >>

\* Breadth-first distance from the grid center to goal over free cells (the
\* center itself is where the robot stands and is not tested); -1 if none.
RECURSIVE BfsDist(_, _, _, _, _)
BfsDist(grid, goal, seen, frontier, d) ==
    IF goal \in frontier THEN d
    ELSE IF frontier = {} THEN -1
    ELSE LET nxt == { n \in Cells \ seen :
                        Free(grid, n) /\ \E f \in frontier : Adjacent(f, n) }
         IN  BfsDist(grid, goal, seen \cup nxt, nxt, d + 1)

ShortestSteps(grid, goal) ==
    IF ~Free(grid, goal) THEN -1 ELSE BfsDist(grid, goal, {StartCell}, {StartCell}, 0)

\* The search has just posted its result for path_planner_thread.goal, read
\* on the grid as it is now.
SearchJustPosted ==
    /\ path_planner_thread.pc = "exit"
    /\ path_planner_thread.goal # None
    /\ Free(occupancy_grid, path_planner_thread.goal)
    /\ after_queue # <<>>

PostedResult == after_queue[Len(after_queue)]

IsRoute(path, grid, goal) ==
    /\ \A i \in 1 .. Len(path) :
          /\ path[i] \in Cells
          /\ Free(grid, path[i])
          /\ path[i] # StartCell
          /\ Adjacent(IF i = 1 THEN StartCell ELSE path[i - 1], path[i])
    /\ IF path = <<>> THEN goal = StartCell ELSE path[Len(path)] = goal

\* C9: every path the planner returns is a chain of free in-bounds cells that
\* starts next to the grid center, steps between 4-adjacent cells, ends at the
\* goal and leaves the start cell out; for goal = start it is empty.
C9_PathIsRoute ==
    (SearchJustPosted /\ PostedResult.fn = "succeeded")
        => /\ IsRoute(PostedResult.path, occupancy_grid, path_planner_thread.goal)
           /\ (path_planner_thread.goal = StartCell => PostedResult.path = <<>>)

C9_Witness ==
    /\ SearchJustPosted
    /\ PostedResult.fn = "succeeded"
    /\ Len(PostedResult.path) > heuristic(StartCell, path_planner_thread.goal)

NoRoute(grid, goal) == ShortestSteps(grid, goal) = -1

\* C8: when no 4-connected route of free in-bounds cells joins the center to
\* the selected goal, the planner posts a failure, and once that result has
\* been delivered the state is NO_PATH_FOUND, the path is empty and the goal
\* is still the one that was selected.
C8_NoRouteVerdict ==
    ( /\ path_planner_thread.pc = "exit"
      /\ path_planner_thread.goal # None
      /\ NoRoute(occupancy_grid, path_planner_thread.goal) )
        => IF after_queue # <<>>
           THEN PostedResult.fn = "failed"
           ELSE /\ navigation_state = NAV_STATE_NO_PATH_FOUND
                /\ current_path = <<>>
                /\ navigation_goal_cell = path_planner_thread.goal

C8_Witness ==
    /\ path_planner_thread.pc = "exit"
    /\ path_planner_thread.goal # None
    /\ Free(occupancy_grid, path_planner_thread.goal)
    /\ NoRoute(occupancy_grid, path_planner_thread.goal)
    /\ after_queue = <<>>
    /\ navigation_state = NAV_STATE_NO_PATH_FOUND

MotionCommands == {"F", "L", "R"}
TerminalStates ==
    { NAV_STATE_REACHED_GOAL, NAV_STATE_NO_PATH_FOUND, NAV_STATE_ROBOT_CMD_ERROR }
SteppingStates ==
    { NAV_STATE_AWAITING_NEXT_STEP, NAV_STATE_MOVING_FORWARD,
      NAV_STATE_TURNING_LEFT, NAV_STATE_TURNING_RIGHT }

\* Nothing is in flight and only the operator can change the navigation state.
Settled ==
    /\ navigation_goal_cell # None
    /\ ~ThreadAlive(path_planner_thread)
    /\ after_queue = <<>>
    /\ action_timer_id = "none"
    /\ navigation_state \in TerminalStates \cup {NAV_STATE_PATH_BLOCKED}

\* C1: on an empty grid with no transport failure, after a goal k >= 1 cells
\* straight ahead is selected, every path the planner delivers runs straight to
\* its last cell, and when the run has settled the state is REACHED_GOAL and
\* exactly k forward commands were transmitted.
C1_StraightRun ==
    /\ \A i \in DOMAIN after_queue :
          after_queue[i].path # <<>> =>
              Len(after_queue[i].path) =
                  grid_center_y_cell - after_queue[i].path[Len(after_queue[i].path)][1]
    /\ Settled =>
          /\ navigation_state = NAV_STATE_REACHED_GOAL
          /\ f_count = grid_center_y_cell - navigation_goal_cell[1]

\* C2: when the send of F, L or R chosen by a tick fails the state is
\* ROBOT_CMD_ERROR at the end of that tick, and from then on nothing is
\* transmitted until the operator selects a goal or toggles the connection.
C2_NoCommandAfterFailure ==
    [][ /\ (PeriodicUpdate(BOOLEAN) /\ last_tx'.cmd \in MotionCommands /\ ~last_tx'.ok)
            => navigation_state' = NAV_STATE_ROBOT_CMD_ERROR
        /\ (halted /\ halted') => last_tx'.cmd = "none" ]_vars

\* C3: a send that fails in a tick or in the action timer while the controller
\* is stepping, the stop of the blocked-head and malformed-step branches
\* included, leaves the state ROBOT_CMD_ERROR with no action timer armed.
C3_FailureLatches ==
    [][ ( /\ PeriodicUpdate(BOOLEAN) \/ TimerFires(BOOLEAN)
          /\ navigation_state \in SteppingStates
          /\ last_tx'.cmd # "none"
          /\ ~last_tx'.ok )
            => /\ navigation_state' = NAV_STATE_ROBOT_CMD_ERROR
               /\ action_timer_id' = "none" ]_vars

\* C4: F, L or R is transmitted only when every earlier F, L or R has been
\* followed by a stop: between two motion commands there is an S.
C4_StopBetweenMotions ==
    [][ (last_tx'.cmd \in MotionCommands /\ last_tx'.ok) => ~motion_open ]_vars

\* C5: when the action timer fires and its stop fails to send, the state
\* becomes ROBOT_CMD_ERROR.
C5_TrailingStopFailure ==
    [][ (TimerFires(BOOLEAN) /\ last_tx'.cmd = "S" /\ ~last_tx'.ok)
            => navigation_state' = NAV_STATE_ROBOT_CMD_ERROR ]_vars

\* C6: in REACHED_GOAL, NO_PATH_FOUND or ROBOT_CMD_ERROR no tick, action timer
\* or planner callback changes the state or transmits F, L or R.
C6_TerminalStatesStay ==
    [][ ( /\ navigation_state \in TerminalStates
          /\ PeriodicUpdate(BOOLEAN) \/ TimerFires(BOOLEAN) \/ AfterCallback(BOOLEAN) )
            => /\ navigation_state' = navigation_state
               /\ last_tx'.cmd \notin MotionCommands ]_vars

\* C7: a tick that decides in AWAITING_NEXT_STEP with the head of the path
\* occupied and no planner alive sends S, clears the path, ends in PLANNING
\* with a new search started, and the path that search installs does not
\* contain the cell that was found occupied.
C7_ReplanAvoidsBlockedCell ==
    [][ /\ ( /\ PeriodicUpdate(BOOLEAN)
             /\ is_udp_running
             /\ navigation_state = NAV_STATE_AWAITING_NEXT_STEP
             /\ current_action_info = "elapsed"
             /\ current_path # <<>>
             /\ ~Free(occupancy_grid', Head(current_path))
             /\ ~ThreadAlive(path_planner_thread) )
               => /\ last_tx'.cmd = "S"
                  /\ current_path' = <<>>
                  /\ navigation_state' = NAV_STATE_PLANNING
                  /\ path_planner_thread' = ReplanThread(Head(current_path))
        /\ ( /\ AfterCallback(BOOLEAN)
             /\ Head(after_queue).blocked # None )
               => Head(after_queue).blocked \notin Range(current_path') ]_vars

\* C11: every cell value is always in [0, MAX_CELL_VALUE], whatever decays and
\* hits came before, many hits of one cell in one batch included.
C11_CellValuesInRange ==
    \A c \in Cells :
        0 <= occupancy_grid[c] /\ occupancy_grid[c] <= MAX_CELL_VALUE * VAL_SCALE

C11_Witness ==
    /\ received_packets >= 2
    /\ \E c \in Cells : occupancy_grid[c] = MAX_CELL_VALUE * VAL_SCALE

\* Decays enough to bring MAX_CELL_VALUE below CLEAR_BELOW_VALUE at
\* DECAY_RATE: the least n with 150 * 0.9^n < 10.
DecayStepsBound == 26

RECURSIVE DecayTimes(_, _)
DecayTimes(v, n) == IF n = 0 THEN v ELSE DecayTimes(DecayValue(v), n - 1)

\* C12: from any value in [0, MAX_CELL_VALUE] a decay never raises the value,
\* DecayStepsBound decays bring it to exactly 0, and 0 decays to 0; a tick
\* without data lowers or keeps every cell and keeps the cells that are 0.
C12_DecayReachesZero ==
    /\ [](\A c \in Cells :
            /\ DecayValue(occupancy_grid[c]) <= occupancy_grid[c]
            /\ DecayTimes(occupancy_grid[c], DecayStepsBound) = 0
            /\ DecayValue(0) = 0)
    /\ [][\A c \in Cells :
            /\ occupancy_grid'[c] <= occupancy_grid[c]
            /\ (occupancy_grid[c] = 0 => occupancy_grid'[c] = 0)]_vars

C12_Witness ==
    \E c \in Cells :
        /\ occupancy_grid[c] \notin DecaySamples
        /\ occupancy_grid[c] > 0
        /\ DecayValue(occupancy_grid[c]) = 0

\* C13: a cell counts as occupied exactly when its value is at least
\* RENDER_THRESHOLD, and every cell value is 0 or at least CLEAR_BELOW_VALUE.
C13_OccupiedIffAtThreshold ==
    \A c \in Cells :
        /\ is_valid_and_clear(occupancy_grid, c)
              <=> occupancy_grid[c] < RENDER_THRESHOLD * VAL_SCALE
        /\ IsOccupiedValue(occupancy_grid[c])
              <=> occupancy_grid[c] >= RENDER_THRESHOLD * VAL_SCALE
        /\ occupancy_grid[c] = 0 \/ occupancy_grid[c] >= CLEAR_BELOW_VALUE * VAL_SCALE

C13_Witness ==
    /\ \E c \in Cells :
          /\ occupancy_grid[c] >= CLEAR_BELOW_VALUE * VAL_SCALE
          /\ DecayValue(occupancy_grid[c]) = 0
    /\ \E c \in Cells : occupancy_grid[c] >= RENDER_THRESHOLD * VAL_SCALE

Headings == {0, 90, 180, 270}

\* C14: the heading is always 0, 90, 180 or 270; a right turn that was sent
\* adds 90 mod 360 and a left turn that was sent subtracts 90 mod 360, so four
\* right turns, four left turns, and a left then a right turn give the heading
\* back.
C14_HeadingAlgebra ==
    /\ [](/\ robot_orientation_map_deg \in Headings
          /\ \A h \in Headings :
                /\ TurnRightHeading(TurnRightHeading(TurnRightHeading(TurnRightHeading(h)))) = h
                /\ TurnLeftHeading(TurnLeftHeading(TurnLeftHeading(TurnLeftHeading(h)))) = h
                /\ TurnRightHeading(TurnLeftHeading(h)) = h
                /\ TurnLeftHeading(TurnRightHeading(h)) = h)
    /\ [][ /\ (last_tx' = [cmd |-> "R", ok |-> TRUE])
               => robot_orientation_map_deg' = (robot_orientation_map_deg + 90) % 360
           /\ (last_tx' = [cmd |-> "L", ok |-> TRUE])
               => robot_orientation_map_deg' = (robot_orientation_map_deg + 270) % 360 ]_vars

C14_Witness ==
    /\ last_tx = [cmd |-> "L", ok |-> TRUE]
    /\ robot_orientation_map_deg = 180

\* C15: the robot's logical cell is the grid center in every state, and no
\* cell popped off the path after a forward step is in the path again while
\* the same goal is pursued.
C15_PoppedCellNotRevisited ==
    /\ current_logical_robot_cell_on_path = << grid_center_y_cell, grid_center_x_cell >>
    /\ popped_cells \cap Range(current_path) = {}

\* C16: the queue never holds more than 5 batches; a batch that arrives while
\* the queue is full replaces the oldest one; and whatever the ticks drain
\* between the receiver's statements, the batch just received is not lost.
C16_DropOldestKeepsNewest ==
    /\ [](Len(data_queue) <= QUEUE_MAXSIZE /\ ~udp_thread.lost)
    /\ [][ /\ (udp_thread.pc = "get_nowait" /\ udp_thread'.pc = "put_nowait")
               => data_queue' = Tail(data_queue)
           /\ (udp_thread.pc = "put_nowait" /\ udp_thread'.pc = "recvfrom")
               => data_queue' = Append(data_queue, udp_thread.raw_data) ]_vars

\* The tick's queue processing applied to the current state, and the number
\* of batches it drains.
Ticked == process_queued_data(Self)
Drained == Len(data_queue) - Len(Ticked.data_queue)

\* C17 as stated: a tick drains at most 2 batches, and a tick that drains
\* none decays the grid exactly once.
C17_IdleTickDecays ==
    /\ Drained <= PACKETS_PER_CYCLE
    /\ Drained = 0 => Ticked.occupancy_grid = DecayGrid(occupancy_grid)

\* C17 amended: a tick drains at most 2 batches (the oldest ones, in order);
\* a tick that drains none decays the grid exactly once while the feed is
\* connected and leaves the grid as it is while the feed is disconnected.
C17_IdleTickDecaysWhileConnected ==
    /\ Drained = Min(PACKETS_PER_CYCLE, Len(data_queue))
    /\ Ticked.data_queue = SubSeq(data_queue, Drained + 1, Len(data_queue))
    /\ (Drained = 0 /\ is_udp_running)
          => Ticked.occupancy_grid = DecayGrid(occupancy_grid)
    /\ (Drained = 0 /\ ~is_udp_running)
          => Ticked.occupancy_grid = occupancy_grid

\* A disconnected feed with marks left on the grid, two batches having been
\* drained by one tick before.
C17_Witness ==
    /\ ~is_udp_running
    /\ data_queue = <<>>
    /\ received_packets >= PACKETS_PER_CYCLE
    /\ occupancy_grid # EmptyGrid

\* C18: while a planner thread is alive neither a goal selection nor a tick
\* (with its blockage replan) starts another one: the thread object stays
\* the one that is running; and an accepted goal selection made then leaves
\* the navigation state PLANNING.
C18_OnePlannerThread ==
    ThreadAlive(path_planner_thread) =>
        /\ \A ok \in BOOLEAN :
              periodic_update(Self, ok).path_planner_thread = path_planner_thread
        /\ \A cell \in GoalChoices, yes \in BOOLEAN, ok \in BOOLEAN :
              LET s1 == handle_map_click(Self, cell, yes, ok)
              IN  /\ s1.path_planner_thread = path_planner_thread
                  /\ (s1.navigation_goal_cell = cell /\ (yes \/ navigation_state \notin BusyStates)
                        /\ is_valid_and_clear(occupancy_grid, cell) /\ is_udp_running)
                       => s1.navigation_state = NAV_STATE_PLANNING

\* A tick has just found the head of the path occupied while the planner
\* thread was alive: it sent S and stays in PATH_BLOCKED with the same thread.
C18_Witness ==
    /\ ThreadAlive(path_planner_thread)
    /\ navigation_state = NAV_STATE_PATH_BLOCKED
    /\ last_tx.cmd = "S"

\* C19: between the first and the last iteration of a search the grid does
\* not change, so that a path the search returns is a route over free cells
\* in a grid state that existed while it ran.
C19_SearchReadsOneGrid ==
    /\ []( ( /\ path_planner_thread.pc = "exit"
             /\ path_planner_thread.st # None
             /\ path_planner_thread.st.path_found )
           => \E grid \in path_planner_thread.grids :
                 IsRoute(AStarResult(path_planner_thread.st, path_planner_thread.goal).path,
                         grid, path_planner_thread.goal) )
    /\ [][ ( /\ path_planner_thread.pc = "search"
             /\ path_planner_thread.st # None
             /\ ~AStarDone(path_planner_thread.st) )
           => occupancy_grid' = occupancy_grid ]_vars

\* C20: a click changes the goal only to the clicked cell, and only if that
\* cell is in the grid and its value is below RENDER_THRESHOLD when clicked; a
\* click on an occupied cell or outside the grid leaves the goal as it was and
\* starts no planner thread.
C20_GoalOnlyOnFreeCell ==
    \A cell \in ClickCells, yes \in BOOLEAN, ok \in BOOLEAN :
        LET s1 == handle_map_click(Self, cell, yes, ok)
        IN  /\ s1.navigation_goal_cell # navigation_goal_cell
                => /\ s1.navigation_goal_cell = cell
                   /\ cell \in Cells
                   /\ Free(occupancy_grid, cell)
            /\ (cell \notin Cells \/ ~Free(occupancy_grid, cell))
                => /\ s1.navigation_goal_cell = navigation_goal_cell
                   /\ s1.path_planner_thread = path_planner_thread

\* The operator has just clicked on the occupied cell ahead or outside the
\* grid while navigation was busy: the action was cancelled, the state is IDLE
\* and the goal is still the earlier one.
C20_Witness ==
    /\ is_udp_running
    /\ ~Free(occupancy_grid, CellAhead(1))
    /\ navigation_state = NAV_STATE_IDLE
    /\ navigation_goal_cell = CellAhead(2)
    /\ last_tx.cmd = "S"

\* C21: when the event loop runs a success callback of the planner, a
\* non-empty path is installed and the state becomes AWAITING_NEXT_STEP; an
\* empty path with the goal on the robot cell gives REACHED_GOAL and a stop (S)
\* handed to the command channel; an empty path with any other goal gives
\* NO_PATH_FOUND.
C21_SuccessCallbackOutcome ==
    [][ ( /\ after_queue # <<>>
          /\ after_queue' = Tail(after_queue)
          /\ Head(after_queue).fn = "succeeded" )
        => LET path == Head(after_queue).path
           IN  IF path # <<>>
               THEN /\ navigation_state' = NAV_STATE_AWAITING_NEXT_STEP
                    /\ current_path' = path
               ELSE IF navigation_goal_cell = current_logical_robot_cell_on_path
               THEN /\ navigation_state' = NAV_STATE_REACHED_GOAL
                    /\ current_path' = <<>>
                    /\ last_tx'.cmd = "S"
               ELSE /\ navigation_state' = NAV_STATE_NO_PATH_FOUND
                    /\ current_path' = <<>> ]_vars

\* The search for a goal on the robot's own cell returned the empty path and
\* its callback has run: the goal is reached and S was sent.
C21_Witness ==
    /\ navigation_goal_cell = current_logical_robot_cell_on_path
    /\ navigation_state = NAV_STATE_REACHED_GOAL
    /\ current_path = <<>>
    /\ last_tx = [cmd |-> "S", ok |-> TRUE]
    /\ after_queue = <<>>
    /\ received_packets = 0

\* C22: whenever the controller is about to decide on a path head one
\* cardinal step away, with diff = (target - heading) mod 360: diff 0 sends F
\* and keeps the heading; diff 90 sends R and diff 270 sends L, and the
\* heading is then the target; diff 180 sends R, never L, and once that turn
\* has completed the next decision sends R again, after which the heading is
\* the target.
C22_TurnDecisions ==
    ( /\ navigation_state \in SteppingStates
      /\ current_action_info = "elapsed"
      /\ current_path # <<>>
      /\ is_valid_and_clear(occupancy_grid, Head(current_path))
      /\ Adjacent(Head(current_path), current_logical_robot_cell_on_path) )
    => LET head == Head(current_path)
           target == TargetOrientation(head[1] - current_logical_robot_cell_on_path[1],
                                       head[2] - current_logical_robot_cell_on_path[2])
           diff == (target - robot_orientation_map_deg + 360) % 360
           s1 == execute_navigation_step(Self, TRUE)
           completed == on_action_completed([s1 EXCEPT !.current_action_info = "elapsed"], TRUE)
           s2 == execute_navigation_step([completed EXCEPT !.last_tx = NoTx], TRUE)
       IN  /\ robot_orientation_map_deg \in Headings
           /\ target \in Headings
           /\ \A ok \in BOOLEAN :
                 execute_navigation_step(Self, ok).last_tx.cmd =
                     CASE diff = 0 -> "F"
                       [] diff = 90 -> "R"
                       [] diff = 180 -> "R"
                       [] diff = 270 -> "L"
           /\ diff = 0 => s1.robot_orientation_map_deg = robot_orientation_map_deg
           /\ diff \in {90, 270} => s1.robot_orientation_map_deg = target
           /\ diff = 180 =>
                 /\ s1.current_path = current_path
                 /\ completed.navigation_state = NAV_STATE_AWAITING_NEXT_STEP
                 /\ s2.last_tx = [cmd |-> "R", ok |-> TRUE]
                 /\ s2.robot_orientation_map_deg = target

\* The first turn of a reversal has been sent: the robot faced north with the
\* path head right behind it, and now faces east while turning right.
C22_Witness ==
    /\ current_path # <<>>
    /\ Head(current_path) = << grid_center_y_cell + 1, grid_center_x_cell >>
    /\ robot_orientation_map_deg = 90
    /\ navigation_state = NAV_STATE_TURNING_RIGHT
    /\ last_tx = [cmd |-> "R", ok |-> TRUE]

\* The step takes the head cell off the path and keeps the rest of it.  (The
\* pop of the last cell of a path leaves the same state as a discard of the
\* path, and is covered from the side of the command that causes it.)
HeadRemoved ==
    /\ current_path # <<>>
    /\ current_path' # <<>>
    /\ current_path' = Tail(current_path)

\* The step changes the heading other than by the reset on (dis)connection.
HeadingTurned ==
    /\ robot_orientation_map_deg' # robot_orientation_map_deg
    /\ is_udp_running' = is_udp_running

Sent(cmd) == [cmd |-> cmd, ok |-> TRUE]

\* C23: the head cell of the path is removed, and the heading is changed by
\* +/-90, only in a step in which the action's timer had elapsed and the
\* trailing stop was sent successfully; the step that sends F, L or R leaves
\* the path and the heading as they were, so that they keep their old values
\* while the action is pending.
C23_LogicalUpdateAfterStop ==
    [][ /\ (HeadRemoved \/ HeadingTurned)
            => /\ current_action_info = "elapsed"
               /\ action_timer_id = "on_action_completed"
               /\ last_tx' = Sent("S")
        /\ last_tx' \in {Sent("F"), Sent("L"), Sent("R")}
            => /\ current_path' = current_path
               /\ robot_orientation_map_deg' = robot_orientation_map_deg ]_vars

\* C23, amended: the head cell of the path is removed only in the decision
\* step that sent F successfully, and the heading is changed by +/-90 only in
\* the decision step that sent R or L successfully; such a step always does so,
\* hence while the action is pending the target cell is already off the path
\* and the heading already has its post-turn value.  The handler of the
\* action's timer, which sends the trailing stop, changes neither.
C23_LogicalUpdateOnSend ==
    [][ /\ HeadRemoved
            => last_tx' = Sent("F") /\ navigation_state' = NAV_STATE_MOVING_FORWARD
        /\ HeadingTurned
            => \/ /\ last_tx' = Sent("R")
                  /\ navigation_state' = NAV_STATE_TURNING_RIGHT
                  /\ robot_orientation_map_deg' = (robot_orientation_map_deg + 90) % 360
               \/ /\ last_tx' = Sent("L")
                  /\ navigation_state' = NAV_STATE_TURNING_LEFT
                  /\ robot_orientation_map_deg' = (robot_orientation_map_deg + 270) % 360
        /\ last_tx' = Sent("F")
            => current_path # <<>> /\ current_path' = Tail(current_path)
        /\ last_tx' \in {Sent("L"), Sent("R")} => HeadingTurned
        /\ action_timer_id = "on_action_completed"
            => \A ok \in BOOLEAN :
                  LET s1 == on_action_completed(Self, ok)
                  IN  /\ s1.current_path = current_path
                      /\ s1.robot_orientation_map_deg = robot_orientation_map_deg ]_vars

\* A forward action is pending: F was sent, the timer runs, and the cell
\* ahead is already off the path.
C23_Witness ==
    /\ navigation_state = NAV_STATE_MOVING_FORWARD
    /\ last_tx = Sent("F")
    /\ current_action_info = "running"
    /\ action_timer_id = "on_action_completed"
    /\ navigation_goal_cell = CellAhead(2)
    /\ current_path = << CellAhead(2) >>
    /\ popped_cells = { CellAhead(1) }

Failed(cmd) == [cmd |-> cmd, ok |-> FALSE]

\* C24: a decision step whose F, L or R could not be sent leaves the heading
\* and the path exactly as they were; the heading is turned only in a step
\* whose L or R was sent, and a head cell is taken off the path only in a step
\* whose F was sent.
C24_FailedSendChangesNothing ==
    [][ /\ last_tx' \in {Failed("F"), Failed("L"), Failed("R")}
            => /\ current_path' = current_path
               /\ robot_orientation_map_deg' = robot_orientation_map_deg
               /\ popped_cells' = popped_cells
        /\ HeadingTurned => last_tx' \in {Sent("L"), Sent("R")}
        /\ HeadRemoved => last_tx' = Sent("F") ]_vars

\* The right turn towards the cell on the right could not be sent: the robot
\* still faces north and the path still starts with that cell.
C24_Witness ==
    /\ last_tx = Failed("R")
    /\ navigation_state = NAV_STATE_ROBOT_CMD_ERROR
    /\ robot_orientation_map_deg = 0
    /\ current_path = << << grid_center_y_cell, grid_center_x_cell + 1 >> >>
    /\ action_timer_id = "none"

\* C25: in every step that hands F to the command channel the path was not
\* empty, its head is one cardinal step from the robot's logical cell, lies in
\* the grid, is not occupied in the grid the decision was taken on (the grid
\* after the tick's queue processing), and the heading is the cardinal
\* direction from the robot cell to that head.
C25_ForwardOnlyWhenClearAndAligned ==
    [][ last_tx'.cmd = "F"
        => /\ current_path # <<>>
           /\ LET head == Head(current_path)
              IN  /\ Adjacent(head, current_logical_robot_cell_on_path)
                  /\ head \in Cells
                  /\ Free(occupancy_grid', head)
                  /\ robot_orientation_map_deg =
                         TargetOrientation(head[1] - current_logical_robot_cell_on_path[1],
                                           head[2] - current_logical_robot_cell_on_path[2]) ]_vars

\* The robot has turned right and drives to the free cell on its right while
\* the cell in front of it is occupied.
C25_Witness ==
    /\ last_tx = Sent("F")
    /\ navigation_state = NAV_STATE_MOVING_FORWARD
    /\ robot_orientation_map_deg = 90
    /\ popped_cells = { << grid_center_y_cell, grid_center_x_cell + 1 >> }
    /\ ~Free(occupancy_grid, CellAhead(1))

\* A decision is due on a path head that is in the grid and free but is
\* neither one cardinal step from the robot's logical cell nor that cell.
InvalidStepDue ==
    /\ is_udp_running
    /\ navigation_state \in SteppingStates
    /\ current_action_info = "elapsed"
    /\ current_path # <<>>
    /\ is_valid_and_clear(process_queued_data(Self).occupancy_grid, Head(current_path))
    /\ ~Adjacent(Head(current_path), current_logical_robot_cell_on_path)
    /\ Head(current_path) # current_logical_robot_cell_on_path

\* C26: a tick that finds such a path head hands S and nothing else to the
\* command channel, empties the path and sets PATH_BLOCKED; and PATH_BLOCKED is
\* left only by the operator, who selects a goal (PLANNING) or disconnects
\* (IDLE).
C26_InvalidStepIsFatal ==
    [][ /\ InvalidStepDue
            => \A ok \in BOOLEAN :
                  LET s1 == periodic_update(Self, ok)
                  IN  /\ s1.last_tx.cmd = "S"
                      /\ s1.current_path = <<>>
                      /\ s1.navigation_state = NAV_STATE_PATH_BLOCKED
        /\ (navigation_state = NAV_STATE_PATH_BLOCKED
              /\ navigation_state' # NAV_STATE_PATH_BLOCKED)
            => \/ /\ navigation_state' = NAV_STATE_PLANNING
                  /\ current_path' = <<>>
                  /\ navigation_goal_cell' # None
               \/ /\ navigation_state' = NAV_STATE_IDLE
                  /\ ~is_udp_running' ]_vars

Last(seq) == seq[Len(seq)]

\* C27: the navigation state always leaves PLANNING again, and a path that a
\* success callback installs while the state is PLANNING ends in the goal that
\* is selected then, not in a goal it replaced.
C27_DeferredGoalPlanned ==
    /\ (navigation_state = NAV_STATE_PLANNING) ~> (navigation_state # NAV_STATE_PLANNING)
    /\ [][ ( /\ navigation_state = NAV_STATE_PLANNING
             /\ after_queue # <<>>
             /\ after_queue' = Tail(after_queue)
             /\ Head(after_queue).fn = "succeeded"
             /\ Head(after_queue).path # <<>> )
           => Last(Head(after_queue).path) = navigation_goal_cell ]_vars

\* C28: whenever a tick has found the head of the path occupied and set
\* PATH_BLOCKED, the navigation state leaves PATH_BLOCKED again, whether or
\* not a planner thread was alive when the blockage was found.
C28_BlockageReplanned ==
    (navigation_state = NAV_STATE_PATH_BLOCKED)
        ~> (navigation_state # NAV_STATE_PATH_BLOCKED)

\* The least whole number of iterations at which
\* iterations < GRID_DIMENSION * GRID_DIMENSION * 1.5 is false.
MaxExpansions == (3 * GRID_DIMENSION * GRID_DIMENSION + 1) \div 2

\* The node expansions the running search has made so far.
Expansions(t) == IF t.st = None THEN 0 ELSE t.st.iterations

Landings(points, heading) ==
    [ i \in 1 .. Len(points) |->
        IF 0 < points[i][2] /\ points[i][2] <= MAX_LIDAR_RANGE_MM_DISPLAY
        THEN HitCell(points[i], heading)
        ELSE None ]

\* The grid the claimed formula gives for one batch.
BatchFormula(grid, points, heading) ==
    LET landed == Landings(points, heading)
    IN  [ cell \in Cells |->
            Min(DecayValue(grid[cell])
                    + HIT_INCREMENT * VAL_SCALE
                          * Cardinality({ i \in DOMAIN landed : landed[i] = cell }),
                MAX_CELL_VALUE * VAL_SCALE) ]

\* C30: integrating one batch sets every cell to
\* min(d(v) + HIT_INCREMENT * k, MAX_CELL_VALUE), v being the value before, d
\* one decay step and k the number of accepted readings of the batch that land
\* in the cell; a cell hit by the batch holds at least HIT_INCREMENT afterwards.
\* Checked on every tick that takes batches off the queue: one batch, or two
\* integrated one after the other.
C30_BatchIntegration ==
    [][ Len(data_queue') < Len(data_queue)
        => LET heading == robot_orientation_map_deg
               first == BatchFormula(occupancy_grid, data_queue[1], heading)
               last == data_queue[Len(data_queue) - Len(data_queue')]
               landed == Landings(last, heading)
           IN  /\ occupancy_grid' =
                      IF Len(data_queue) - Len(data_queue') = 1
                      THEN first
                      ELSE BatchFormula(first, data_queue[2], heading)
               /\ \A i \in DOMAIN landed :
                      landed[i] \in Cells
                          => occupancy_grid'[landed[i]] >= HIT_INCREMENT * VAL_SCALE ]_vars

\* Two batches with two hits each on the cell ahead have been integrated one
\* after the other: the cell holds the decayed first pair plus the second.
C30_Witness ==
    /\ received_packets = 2
    /\ occupancy_grid[CellAhead(1)] =
           DecayValue(2 * HIT_INCREMENT * VAL_SCALE) + 2 * HIT_INCREMENT * VAL_SCALE

\* ------------------------------------------------------------ C31
\* The nearest integer to center + mm / CELL_SIZE_MM, halves rounded up.
NearestIndex(center, mm) ==
    (2 * CELL_SIZE_MM * center + 2 * mm + CELL_SIZE_MM) \div (2 * CELL_SIZE_MM)

NearestCell(point, heading) ==
    LET xy == polar_to_cartesian_map_frame(point[1], point[2], heading)
    IN  << NearestIndex(grid_center_y_cell, -xy[2]), NearestIndex(grid_center_x_cell, xy[1]) >>

\* The cells a batch may change: those of its readings in range whose
\* nearest cell is inside the grid.
NearestCells(points, heading) ==
    { NearestCell(points[i], heading) :
        i \in { j \in DOMAIN points :
                  /\ 0 < points[j][2] /\ points[j][2] <= MAX_LIDAR_RANGE_MM_DISPLAY
                  /\ InBounds(NearestCell(points[j], heading)) } }

\* C31: a reading changes a cell only if its range is in (0, maximum] and the
\* nearest-integer cell index of its offset is inside the grid on both axes;
\* a reading that rounds to index -1 or N changes no cell.  From the empty
\* grid, with the heading fixed, a cell holds a value only if it is the
\* nearest cell of such a reading of some batch of the feed.
C31_OnlyNearestCellChanges ==
    \A c \in Cells :
        occupancy_grid[c] > 0
            => \E batch \in EdgeBatches : c \in NearestCells(batch, robot_orientation_map_deg)

\* ------------------------------------------------------------ C32
\* The batch with its empty and malformed readings removed.
WithoutMalformed(points) == SelectSeq(points, WellFormed)

\* C32: integrating a batch that contains empty or malformed readings gives
\* the grid that integrating the batch without them gives: one decay, then
\* the hits of every well-formed reading, those after a malformed one
\* included.  Checked on every tick that takes batches off the queue.
C32_MalformedPointsSkipped ==
    [][ Len(data_queue') < Len(data_queue)
        => LET heading == robot_orientation_map_deg
               first == BatchFormula(occupancy_grid, WithoutMalformed(data_queue[1]), heading)
           IN  occupancy_grid' =
                   IF Len(data_queue) - Len(data_queue') = 1
                   THEN first
                   ELSE BatchFormula(first, WithoutMalformed(data_queue[2]), heading) ]_vars

\* A batch with malformed readings among the well-formed ones has been
\* integrated: the cells of the readings before, between and after the
\* malformed ones hold a hit.
C32_Witness ==
    /\ received_packets = 1
    /\ occupancy_grid[CellAhead(1)] = HIT_INCREMENT * VAL_SCALE
    /\ occupancy_grid[<< grid_center_y_cell, grid_center_x_cell + 1 >>] = HIT_INCREMENT * VAL_SCALE
    /\ occupancy_grid[<< grid_center_y_cell + 1, grid_center_x_cell >>] = HIT_INCREMENT * VAL_SCALE

\* ------------------------------------------------------------ C33
\* The route of two cells to the cell diagonally ahead on the left that goes
\* left first: its first cell was pushed before the cell ahead, at equal
\* priority.
LeftThenAhead ==
    << << grid_center_y_cell, grid_center_x_cell - 1 >>,
       << grid_center_y_cell - 1, grid_center_x_cell - 1 >> >>

C34_PathEndsAtStoredGoal ==
    current_path # <<>>
        => /\ navigation_goal_cell # None
           /\ Last(current_path) = navigation_goal_cell

\* ------------------------------------------------------------ C35
\* C35: once the operator has disconnected the feed or cancelled the
\* navigation, the state is IDLE with an empty path and stays so until a goal
\* selection is accepted (goal stored, PLANNING): the completion of a search
\* started earlier neither moves the state from IDLE to AWAITING_NEXT_STEP
\* nor installs a path.
C35_IdleUntilGoalAccepted ==
    [][ navigation_state = NAV_STATE_IDLE
        => /\ current_path = <<>>
           /\ current_path' = <<>>
           /\ \/ navigation_state' = NAV_STATE_IDLE
              \/ /\ navigation_state' = NAV_STATE_PLANNING
                 /\ navigation_goal_cell' # None ]_vars

\* ------------------------------------------------------------ C36
\* C36: while a path the planner returned is executed, at every decision of
\* the controller (feed connected, a stepping state, no action in progress,
\* path not empty) the head of the path is exactly one cardinal step from the
\* robot's logical cell, so the branch for a malformed step is never taken.
C36_HeadOneStepFromRobot ==
    ( /\ is_udp_running
      /\ navigation_state \in SteppingStates
      /\ current_action_info = "elapsed"
      /\ current_path # <<>> )
        => Adjacent(Head(current_path), current_logical_robot_cell_on_path)

\* ------------------------------------------------------------ C37
\* C37: a datagram that does not decode as UTF-8 is dropped without changing
\* the ingestion buffer: no step the receiver thread takes with such a
\* datagram removes a buffered batch, also when the buffer is full.
C37_UndecodableLeavesBuffer ==
    [][ ( /\ udp_thread.pc \in {"get_nowait", "put_nowait"}
          /\ ~udp_thread.utf8
          /\ udp_thread' # udp_thread )
        => data_queue' = data_queue ]_vars

\* ------------------------------------------------------------ C38
\* C38: the navigation controller hands no F, L or R to the command channel
\* in a step that starts in IDLE or with the feed disconnected, whether the
\* send succeeds or fails: there only S can be transmitted; and a step that
\* hands over F, L or R ends connected and out of IDLE.
C38_NoMotionWhenIdleOrOffline ==
    [][ /\ (navigation_state = NAV_STATE_IDLE \/ ~is_udp_running)
            => last_tx'.cmd \in {"none", "S"}
        /\ last_tx'.cmd \in MotionCommands
            => /\ is_udp_running'
               /\ navigation_state' # NAV_STATE_IDLE ]_vars

\* The feed is disconnected, and the result of a search started before the
\* disconnection has put a path and AWAITING_NEXT_STEP in place: the ticks
\* that follow transmit nothing.
C38_Witness ==
    /\ ~is_udp_running
    /\ navigation_state = NAV_STATE_AWAITING_NEXT_STEP
    /\ current_path # <<>>
    /\ after_queue = <<>>
    /\ ~ThreadAlive(path_planner_thread)
    /\ periodic_update(Self, TRUE).last_tx = NoTx

\* ------------------------------------------------------------ C39
\* C39: manual control never transmits F while forward is locked: under every
\* interleaving of the scan thread with the button handlers, no manual F is
\* transmitted after a K and before the next U.
C39_NoManualForwardWhileLocked ==
    [][ (main_thread = "move_forward" /\ server_tx' = [cmd |-> "F", by |-> "manual"])
        => ~forward_locked ]_vars

\* The lidar scan loop runs, or the demo scan loop does.
ScanLoopRunning ==
    /\ is_scanning
    /\ \/ scan_thread \notin {"none", "except"}
       \/ demo_thread # "none"

\* C40: after the lidar scan loop ended with an error, the process never
\* comes to rest with no scan loop running: neither with is_reconnecting_lidar
\* set and no reconnect worker alive, nor with the flag cleared.  A state of
\* rest is one in which no thread of the process can take a step, so that it
\* lasts forever.
C40_RecoversAfterScanError ==
    (main_thread = "mainloop" /\ ~ENABLED NextReconnect) => ScanLoopRunning

====
